---------------------------- MODULE Spec2Model ----------------------------
(***************************************************************************)
(* A model of the day 17 solver (src/src/bin/day17.rs): part_one parses    *)
(* the input text into a Puzzle and runs Puzzle::a_star from (0,0) to      *)
(* (num_rows-1, num_cols-1); part_two is todo!().                          *)
(*                                                                         *)
(* Text is a sequence of bytes (ASCII codes).  Positions are <<row, col>>, *)
(* 0-based as in the source; TLA+ sequences are 1-based, so the byte of    *)
(* cell (r, c) is nodes[r * num_cols + c + 1].                             *)
(***************************************************************************)
EXTENDS Integers, Sequences, FiniteSets, TLC

(***************************************************************************)
(* Bounds of the model.                                                    *)
(***************************************************************************)
\* grids of at most MaxCells cells, every shape R x C with R * C <= MaxCells
MaxCells == 5
\* the digits of the enumerated grids are 0 .. MaxDigit
MaxDigit == 1
\* arbitrary (possibly malformed) input texts have at most MaxTextLen bytes
MaxTextLen == 3
\* a state whose accumulated cost exceeds MaxCost is not expanded any more:
\* the exploration of a run is cut there (the program itself has no such cap)
MaxCost == 6
\* the same cut for the run on the 13x13 example grid
MaxExampleCost == 12

(***************************************************************************)
(* Program constants.                                                      *)
(***************************************************************************)
MAX_SAME_DIRS == 3
\* moves_left of a node entered by a turn (the literal 3 of a_star)
TURN_MOVES_LEFT == 3
\* b'\n' and b'0'
NL == 10
ZERO == 48
\* u8 arithmetic wraps modulo 2^8 in a release build
U8 == 256

Directions == {"Up", "Down", "Left", "Right"}

Min(S) == CHOOSE x \in S : \A y \in S : x <= y

(***************************************************************************)
(* Input texts.                                                            *)
(***************************************************************************)
\* the grid of tests::INPUT, one row per entry
ExampleGrid ==
    << <<2,4,1,3,4,3,2,3,1,1,3,2,3>>,
       <<3,2,1,5,4,5,3,5,3,5,6,2,3>>,
       <<3,2,5,5,2,4,5,6,5,4,2,5,4>>,
       <<3,4,4,6,5,8,5,8,4,5,4,5,2>>,
       <<4,5,4,6,6,5,7,8,6,7,5,3,6>>,
       <<1,4,3,8,5,9,8,7,9,8,4,5,4>>,
       <<4,4,5,7,8,7,6,9,8,7,7,6,6>>,
       <<3,6,3,7,8,7,7,9,7,9,6,5,3>>,
       <<4,6,5,4,9,6,7,9,8,6,8,8,7>>,
       <<4,5,6,4,6,7,9,9,8,6,4,5,3>>,
       <<1,2,2,4,6,8,6,8,6,5,5,6,3>>,
       <<2,5,4,6,5,4,8,8,8,7,7,3,5>>,
       <<4,3,2,2,6,7,4,6,5,5,5,3,3>> >>

RECURSIVE Concat(_)
Concat(ss) == IF ss = <<>> THEN <<>> ELSE Head(ss) \o Concat(Tail(ss))

\* the text of a grid: the digits of each row, rows separated by '\n', with
\* one final '\n' when final_nl
Render(g, final_nl) ==
    Concat([r \in 1..Len(g) |->
               [c \in 1..Len(g[r]) |-> ZERO + g[r][c]]
               \o (IF r < Len(g) \/ final_nl THEN <<NL>> ELSE <<>>)])

Shapes == {rc \in (1..MaxCells) \X (1..MaxCells) : rc[1] * rc[2] <= MaxCells}

SmallGrids ==
    UNION {[1..rc[1] -> [1..rc[2] -> 0..MaxDigit]] : rc \in Shapes}

\* the bytes of arbitrary texts: '\n', '.', '0', '1', 'x'
Alphabet == {NL, 46, ZERO, ZERO + 1, 120}

Texts == UNION {[1..n -> Alphabet] : n \in 0..MaxTextLen}

(***************************************************************************)
(* str::lines: the pieces between '\n's, a final empty piece dropped, one  *)
(* trailing '\r' stripped from each line.                                  *)
(***************************************************************************)
\* the k-th smallest member of a set of numbers
Kth(S, k) == CHOOSE i \in S : Cardinality({j \in S : j <= i}) = k

\* the pieces of s between its '\n's: one more than it has '\n's
SplitNL(s) ==
    LET nls == {i \in 1..Len(s) : s[i] = NL}
        n == Cardinality(nls)
        from(k) == IF k = 1 THEN 1 ELSE Kth(nls, k - 1) + 1
        to(k) == IF k = n + 1 THEN Len(s) ELSE Kth(nls, k) - 1
    IN  [k \in 1..(n + 1) |-> SubSeq(s, from(k), to(k))]

StripCR(l) ==
    IF l # <<>> /\ l[Len(l)] = 13 THEN SubSeq(l, 1, Len(l) - 1) ELSE l

Lines(s) ==
    LET pieces == SplitNL(s)
        kept == IF pieces[Len(pieces)] = <<>>
                THEN SubSeq(pieces, 1, Len(pieces) - 1)
                ELSE pieces
    IN  [i \in 1..Len(kept) |-> StripCR(kept[i])]

IsDigit(b) == b >= ZERO /\ b <= ZERO + 9

\* a nonempty rectangular grid of ASCII digits, with or without a final '\n'
WellFormed(s) ==
    LET ls == Lines(s) IN
    /\ ls # <<>>
    /\ Len(ls[1]) > 0
    /\ \A i \in 1..Len(ls) :
          /\ Len(ls[i]) = Len(ls[1])
          /\ \A j \in 1..Len(ls[i]) : IsDigit(ls[i][j])

(***************************************************************************)
(* impl FromStr for Puzzle                                                 *)
(***************************************************************************)
\* .filter(|ch| *ch != b'\n').collect()
FilterNotNL(s) ==
    LET keep == {i \in 1..Len(s) : s[i] # NL}
    IN  [k \in 1..Cardinality(keep) |-> s[Kth(keep, k)]]

\* a line count that counts the '\n's, and so misses a last line that no
\* '\n' ends
CountLines_newlines(s) == Cardinality({i \in 1..Len(s) : s[i] = NL})

\* s.lines().count()
CountLines(s) == Len(Lines(s))

CollectNodes(s) == FilterNotNL(s)

from_str(s) ==
    [num_cols |-> IF Lines(s) = <<>> THEN 0 ELSE Len(Lines(s)[1]),
     num_rows |-> CountLines(s),
     nodes    |-> CollectNodes(s)]

(***************************************************************************)
(* struct Node and its orderings                                           *)
(***************************************************************************)
Node(pos, last_dir, moves_left, est_cost) ==
    [pos |-> pos, last_dir |-> last_dir, moves_left |-> moves_left,
     est_cost |-> est_cost]

\* #[derive(PartialOrd, Ord)] on Direction: the order of declaration
DirRank(d) ==
    CASE d = "Up" -> 0 [] d = "Down" -> 1 [] d = "Left" -> 2 [] d = "Right" -> 3

RECURSIVE SeqCmp(_, _)
\* lexicographic comparison of two tuples of numbers: -1, 0 or 1
SeqCmp(a, b) ==
    IF a = <<>> THEN 0
    ELSE IF Head(a) < Head(b) THEN -1
    ELSE IF Head(a) > Head(b) THEN 1
    ELSE SeqCmp(Tail(a), Tail(b))

\* impl Ord for Node: both tuples end with self.last_dir, and the result is
\* b.cmp(&a), the reverse of the tuples' order
NodeCmp(self, other) ==
    LET a == <<self.est_cost, self.pos[1], self.pos[2], self.moves_left,
               DirRank(self.last_dir)>>
        b == <<other.est_cost, other.pos[1], other.pos[2], other.moves_left,
               DirRank(self.last_dir)>>
    IN  SeqCmp(b, a)

is_matching(self, neighbor_node) ==
    /\ self.pos = neighbor_node.pos
    /\ self.last_dir = neighbor_node.last_dir
    /\ self.moves_left = neighbor_node.moves_left

(***************************************************************************)
(* BTreeMap<Node, V>: a function whose domain is a set of Nodes; a key is  *)
(* found by Ord (NodeCmp = 0), and an insert under a key that is found     *)
(* keeps the stored key and replaces the value.                            *)
(***************************************************************************)
EmptyMap == [k \in {} |-> 0]

MapHas(m, n) == \E k \in DOMAIN m : NodeCmp(n, k) = 0

MapKey(m, n) == CHOOSE k \in DOMAIN m : NodeCmp(n, k) = 0

MapGet(m, n) == m[MapKey(m, n)]

MapInsert(m, n, v) ==
    IF MapHas(m, n) THEN [m EXCEPT ![MapKey(m, n)] = v] ELSE m @@ (n :> v)

\* BinaryHeap::pop takes a greatest element of the heap
IsGreatest(heap, n) == n \in heap /\ \A m \in heap : NodeCmp(m, n) <= 0

(***************************************************************************)
(* Puzzle                                                                  *)
(***************************************************************************)
NoPuzzle == [num_cols |-> 0, num_rows |-> 0, nodes |-> <<>>]

NoNode == Node(<<0, 0>>, "Right", 0, 0)

AbsDiff(a, b) == IF a >= b THEN a - b ELSE b - a

\* the heuristic h of a_star
h(pos, goal) == AbsDiff(pos[1], goal[1]) + AbsDiff(pos[2], goal[2])

Start == <<0, 0>>

Goal(p) == <<p.num_rows - 1, p.num_cols - 1>>

start_node(goal) == Node(Start, "Right", MAX_SAME_DIRS, h(Start, goal))

\* the start cell counted as a cell entered, at the cost of one step
start_cost_unit == Len(<<Start>>)

\* costs.insert(start_node.clone(), 0)
start_cost == 0

\* Puzzle::neighbor
neighbor(p, pos) ==
    LET row == pos[1]
        col == pos[2]
    IN  (IF row > 0 THEN << <<"Up", row - 1, col>> >> ELSE <<>>)
        \o (IF row + 1 < p.num_rows THEN << <<"Down", row + 1, col>> >> ELSE <<>>)
        \o (IF col > 0 THEN << <<"Left", row, col - 1>> >> ELSE <<>>)
        \o (IF col + 1 < p.num_cols THEN << <<"Right", row, col + 1>> >> ELSE <<>>)

\* impl Index<(usize, usize)> for Puzzle
Idx(p, pos) == pos[1] * p.num_cols + pos[2]

IndexOk(p, pos) == Idx(p, pos) < Len(p.nodes)

Cell(p, pos) == p.nodes[Idx(p, pos) + 1]

\* is_allowed without its look at parent: only the run limit
is_allowed_run_only(par, src, new_dir, nbr) ==
    ~(src.last_dir = new_dir /\ src.moves_left = 0)

\* the closure is_allowed of a_star
is_allowed(par, src, new_dir, nbr) ==
    IF MapHas(par, src) /\ MapGet(par, src) = nbr
    THEN FALSE
    ELSE ~(src.last_dir = new_dir /\ src.moves_left = 0)

\* moves_left of neighbor_node
next_moves_left(cur, dir) ==
    IF cur.last_dir = dir THEN cur.moves_left - 1 ELSE TURN_MOVES_LEFT

\* (self[n] - b'0') as usize, for a byte the subtraction does not underflow
\* on, or in a release build, where it wraps
EntryCost(byte) == (byte - ZERO) % U8

\* the byte of the cell added as it is, b'0' not taken off
Tenatative_raw_byte(cs, cur, byte) == MapGet(cs, cur) + byte

\* let tenatative = costs[&current] + (self[n] - b'0') as usize
Tenatative(cs, cur, byte) == MapGet(cs, cur) + EntryCost(byte)

\* find_min_node: the entries of costs at pos, and among those of least
\* cost the first in the map's order (min_by_key returns the first minimum)
NodesAt(cs, pos) == {k \in DOMAIN cs : k.pos = pos}

find_min_node(cs, pos) ==
    LET at == NodesAt(cs, pos)
        least == {k \in at : \A k2 \in at : cs[k] <= cs[k2]}
    IN  CHOOSE k \in least : \A k2 \in least : NodeCmp(k, k2) <= 0

(***************************************************************************)
(* State.                                                                  *)
(*   input, given, part, overflow_checks: the run's inputs.  given is the  *)
(*     grid the text was written from (<<>> for an arbitrary text), part   *)
(*     the command (1: part_one, 2: part_two), overflow_checks whether     *)
(*     the build panics on integer overflow (debug) or wraps (release).    *)
(*   pc: "start", "loop" (head of the while loop), "visit" (inside the for *)
(*     loop), "path" (the reconstruction loop), "print", "exit".           *)
(*   outcome: "running", "ok" (a value was returned), "err" (an Err was    *)
(*     returned), "panic".  result: the value returned.                    *)
(*   puzzle, open_set, costs, parent, current, goal_node, c, optimal_path: *)
(*     the locals of part_one and a_star.  open_set is a set: a node is    *)
(*     pushed only when no node of the heap matches it, so the heap never  *)
(*     holds two equal elements.  nbrs is the part of self.neighbor(..)    *)
(*     the for loop has still to visit.                                    *)
(*   route, expanded: history, not program state.  route: for each key of  *)
(*     costs, the cells of the path by which its current cost was reached, *)
(*     start first.  expanded: the nodes popped so far, in order.          *)
(***************************************************************************)
VARIABLES input, given, part, overflow_checks, pc, outcome, result, puzzle,
          open_set, costs, parent, current, nbrs, goal_node, c,
          optimal_path, route, expanded

(***************************************************************************)
(* A second call of a_star on the same puzzle.  calls: the number of the   *)
(* call under way; first_cost: what the first call returned.               *)
(***************************************************************************)
VARIABLES calls, first_cost

calling == <<calls, first_cost>>

CallingInit ==
    /\ calls = 1
    /\ first_cost = 0

(***************************************************************************)
(* day05.  items: the ranges given, each <<start, len>>; made: how the     *)
(* NonOverlappingRanges was built ("none" before); nor: its field ranges,  *)
(* a map from the start of a range to its end.  mapping_range, query: a    *)
(* MappingRange and the Range given to its lookup_range; looked: what      *)
(* lookup_range returned, <<prefix, middle, suffix>>, <<>> before.         *)
(***************************************************************************)
VARIABLES items, made, nor, mapping_range, query, looked

day05 == <<items, made, nor, mapping_range, query, looked>>

Day05Idle ==
    /\ items = <<>>
    /\ made = "idle"
    /\ nor = <<>>
    /\ mapping_range = <<>>
    /\ query = <<>>
    /\ looked = <<>>

(***************************************************************************)
(* day14.  part14: the command (1: part_one, 2: part_two); puz: p.rows, a  *)
(* sequence of rows of "O", "." and "#"; f: the function given to          *)
(* detect_cycles; x0, tortoise, hare, power, lambda, mu: the locals of     *)
(* detect_cycles; nth: n of part_two; done: the iterations made of the     *)
(* for loop under way; score: what compute_score returned, or a panic;     *)
(* pc14: "start", "main", "position", "find_mu", "tilt", "score", "exit".  *)
(***************************************************************************)
VARIABLES part14, puz, f, x0, tortoise, hare, power, lambda, mu, nth, done,
          score, pc14

day14 == <<part14, puz, f, x0, tortoise, hare, power, lambda, mu, nth, done,
           score, pc14>>

detecting == <<x0, tortoise, hare, power, lambda, mu>>

Day14Idle ==
    /\ part14 = 0
    /\ puz = <<>>
    /\ f = <<>>
    /\ x0 = <<>>
    /\ tortoise = <<>>
    /\ hare = <<>>
    /\ power = 0
    /\ lambda = 0
    /\ mu = 0
    /\ nth = 0
    /\ done = 0
    /\ score = <<>>
    /\ pc14 = "idle"

(***************************************************************************)
(* day15, part_two.  boxes: the 256 boxes, each a sequence of <<label,     *)
(* focal length>>.  History: count15, the number of instructions carried   *)
(* out; instr, the last of them (<<>> before the first); before, the boxes *)
(* as they were when it began.                                             *)
(***************************************************************************)
VARIABLES boxes, instr, before, count15

day15 == <<boxes, instr, before, count15>>

Day15Idle ==
    /\ boxes = <<>>
    /\ instr = <<>>
    /\ before = <<>>
    /\ count15 = 0

(***************************************************************************)
(* day22, Puzzle::fall.  bricks: self.bricks; sorted_bricks, idx22 (i),    *)
(* fallen_bricks: the locals of fall; returned22: what the last call of    *)
(* fall returned (<<>> before); falls: the calls of fall begun; pc22:      *)
(* "ready" (no call under way), "for" (in the loop).  History: given22,    *)
(* the bricks of the input; settled, self.bricks when the first call       *)
(* returned.                                                               *)
(***************************************************************************)
VARIABLES bricks, sorted_bricks, idx22, fallen_bricks, returned22, falls,
          pc22, given22, settled

(***************************************************************************)
(* day22, disintegratable_bricks and chain_fall on the pile fall left.     *)
(* removable: the bricks disintegratable_bricks yields (<<>> before it is  *)
(* called); todo22: the bricks the for loop of chain_fall has still to     *)
(* visit; count22: its count.  History: chain, what p.fall() returned in   *)
(* the iteration of each brick.                                            *)
(***************************************************************************)
VARIABLES removable, todo22, count22, chain

chaining == <<removable, todo22, count22, chain>>

day22 == <<bricks, sorted_bricks, idx22, fallen_bricks, returned22, falls,
           pc22, given22, settled, chaining>>

ChainingInit ==
    /\ removable = <<>>
    /\ todo22 = <<>>
    /\ count22 = 0
    /\ chain = <<>>

Day22Idle ==
    /\ bricks = {}
    /\ sorted_bricks = <<>>
    /\ idx22 = 0
    /\ fallen_bricks = 0
    /\ returned22 = <<>>
    /\ falls = 0
    /\ pc22 = "idle"
    /\ given22 = {}
    /\ settled = {}
    /\ ChainingInit

(***************************************************************************)
(* day20, press_button and propagate.  modules20, forward_edges: the       *)
(* fields modules and forward_edges of the Puzzle (a module is a record of *)
(* its kind, is_on, which only a FlipFlop uses, and inputs, which only a   *)
(* Conjunction uses); queue20: the queue of press_button; low_pulses,      *)
(* high_pulses, button_press_count: the SignalCounter; pc20: "ready".      *)
(* History: enqueued, the signals put on the queue in this press, in       *)
(* order; processed, those taken off it, in order.                         *)
(***************************************************************************)
VARIABLES modules20, forward_edges, queue20, low_pulses, high_pulses,
          button_press_count, pc20, enqueued, processed

day20 == <<modules20, forward_edges, queue20, low_pulses, high_pulses,
           button_press_count, pc20, enqueued, processed>>

Day20Idle ==
    /\ modules20 = <<>>
    /\ forward_edges = <<>>
    /\ queue20 = <<>>
    /\ low_pulses = 0
    /\ high_pulses = 0
    /\ button_press_count = 0
    /\ pc20 = "idle"
    /\ enqueued = <<>>
    /\ processed = <<>>

(***************************************************************************)
(* day16, Puzzle::energize.  tiles16, num_rows16, num_cols16: the fields   *)
(* of the Puzzle; start16: the argument of energize; heads: its vector of  *)
(* heads; directions: the field of the TileMask, one list of headings per  *)
(* tile; pc16: "loop" at the test of the while loop, "step" between the    *)
(* retain and the stepping of the heads, "done" once the mask is returned. *)
(* History: dropped16, the heads retain has removed, in order.             *)
(***************************************************************************)
VARIABLES tiles16, num_rows16, num_cols16, start16, heads, directions, pc16,
          dropped16

day16 == <<tiles16, num_rows16, num_cols16, start16, heads, directions, pc16,
           dropped16>>

Day16Idle ==
    /\ tiles16 = <<>>
    /\ num_rows16 = 0
    /\ num_cols16 = 0
    /\ start16 = <<>>
    /\ heads = <<>>
    /\ directions = <<>>
    /\ pc16 = "idle"
    /\ dropped16 = <<>>

\* the state of the other programs of the repository
elsewhere == <<day05, day14, day15, day22, day20, day16>>

ElsewhereIdle == Day05Idle /\ Day14Idle /\ Day15Idle /\ Day22Idle /\ Day20Idle /\ Day16Idle

\* what a run of day17's part_one leaves alone
apart == <<calling, elsewhere>>

ApartInit == CallingInit /\ ElsewhereIdle

vars == <<input, given, part, overflow_checks, pc, outcome, result, puzzle,
          open_set, costs, parent, current, nbrs, goal_node, c,
          optimal_path, route, expanded, apart>>

\* costs begun from the value the call before left in result
first_costs_carried(sn) == (sn :> result)

\* let mut costs = BTreeMap::new(); costs.insert(start_node.clone(), 0)
first_costs(sn) == (sn :> start_cost)

search == <<open_set, costs, parent, current, nbrs, route, expanded>>
finish == <<goal_node, c, optimal_path>>
inputs == <<input, given, part, overflow_checks>>

\* the state before the program runs: the input is the text of a grid, with
\* a final newline or not as final_nls allows, or an arbitrary text that is
\* not the text of a grid
InitWith(parts, final_nls) ==
    /\ part \in parts
    /\ \/ \E g \in SmallGrids \cup {ExampleGrid}, final_nl \in final_nls :
             /\ given = g
             /\ input = Render(g, final_nl)
             \* no subtraction overflows on a grid of digits
             /\ overflow_checks = FALSE
       \/ \E t \in Texts :
             /\ ~WellFormed(t)
             /\ given = <<>>
             /\ input = t
             /\ overflow_checks \in BOOLEAN
    /\ pc = "start"
    /\ outcome = "running"
    /\ result = 0
    /\ puzzle = NoPuzzle
    /\ open_set = {}
    /\ costs = EmptyMap
    /\ parent = EmptyMap
    /\ current = NoNode
    /\ nbrs = <<>>
    /\ goal_node = NoNode
    /\ c = NoNode
    /\ optimal_path = EmptyMap
    /\ route = EmptyMap
    /\ expanded = <<>>
    /\ ApartInit

\* day17 is not running
Day17Idle ==
    /\ input = <<>>
    /\ given = <<>>
    /\ part = 0
    /\ overflow_checks = FALSE
    /\ pc = "idle"
    /\ outcome = "running"
    /\ result = 0
    /\ puzzle = NoPuzzle
    /\ open_set = {}
    /\ costs = EmptyMap
    /\ parent = EmptyMap
    /\ current = NoNode
    /\ nbrs = <<>>
    /\ goal_node = NoNode
    /\ c = NoNode
    /\ optimal_path = EmptyMap
    /\ route = EmptyMap
    /\ expanded = <<>>
    /\ CallingInit

day17 == <<inputs, pc, outcome, result, puzzle, search, finish, calling>>

\* the grids' texts are those of tests::INPUT's form, without a final newline
Init == InitWith({1, 2}, {FALSE})

Panic ==
    /\ pc' = "exit"
    /\ outcome' = "panic"
    /\ UNCHANGED result

(***************************************************************************)
(* part_one up to the while loop of a_star: the parse, the goal, and the   *)
(* initial open_set, costs and parent.  from_str has no Err path.  With    *)
(* num_rows = 0 or num_cols = 0 the goal's subtraction overflows: a debug  *)
(* build panics there; a release build wraps, no cell it can reach is the  *)
(* wrapped goal, and find_min_node(goal).unwrap() panics.                  *)
(***************************************************************************)
PartOne ==
    /\ pc = "start"
    /\ part = 1
    /\ puzzle' = from_str(input)
    /\ IF puzzle'.num_rows = 0 \/ puzzle'.num_cols = 0
       THEN /\ Panic
            /\ UNCHANGED <<search, finish>>
       ELSE LET sn == start_node(Goal(puzzle')) IN
            /\ open_set' = {sn}
            /\ costs' = first_costs(sn)
            /\ parent' = EmptyMap
            /\ route' = (sn :> <<Start>>)
            /\ pc' = "loop"
            /\ UNCHANGED <<current, nbrs, expanded, outcome, result, finish>>
    /\ UNCHANGED <<inputs, apart>>

\* part_two is todo!()
PartTwo ==
    /\ pc = "start"
    /\ part = 2
    /\ Panic
    /\ UNCHANGED <<inputs, apart, puzzle, search, finish>>

(***************************************************************************)
(* while let Some(current) = open_set.pop(), and the call self.neighbor.   *)
(***************************************************************************)
Pop ==
    /\ pc = "loop"
    /\ \E n \in open_set :
          /\ IsGreatest(open_set, n)
          /\ MapGet(costs, n) <=
                IF given = ExampleGrid THEN MaxExampleCost ELSE MaxCost
          /\ current' = n
          /\ expanded' = Append(expanded, n)
          /\ open_set' = open_set \ {n}
          /\ nbrs' = neighbor(puzzle, n.pos)
          /\ pc' = IF nbrs' = <<>> THEN "loop" ELSE "visit"
    /\ UNCHANGED <<inputs, apart, outcome, result, puzzle, costs, parent, route, finish>>

(***************************************************************************)
(* One iteration of for (dir, nr, nc) in self.neighbor(current.pos).       *)
(***************************************************************************)
Visit ==
    /\ pc = "visit"
    /\ LET dir == Head(nbrs)[1]
           n == <<Head(nbrs)[2], Head(nbrs)[3]>>
           next_pc == IF Tail(nbrs) = <<>> THEN "loop" ELSE "visit"
       IN
       IF ~is_allowed(parent, current, dir, n)
       THEN \* continue
            /\ nbrs' = Tail(nbrs)
            /\ pc' = next_pc
            /\ UNCHANGED <<open_set, costs, parent, current, route, expanded,
                           outcome, result>>
       ELSE IF ~IndexOk(puzzle, n) \/ (Cell(puzzle, n) < ZERO /\ overflow_checks)
       THEN \* self[n] is out of bounds, or self[n] - b'0' overflows
            /\ Panic
            /\ UNCHANGED search
       ELSE LET tenatative == Tenatative(costs, current, Cell(puzzle, n))
                neighbor_node ==
                    Node(n, dir, next_moves_left(current, dir),
                         tenatative + h(n, Goal(puzzle)))
                known == MapHas(costs, neighbor_node)
                cost_updated ==
                    IF known THEN tenatative < MapGet(costs, neighbor_node)
                    ELSE TRUE
                came == Append(route[MapKey(costs, current)], n)
            IN
            /\ nbrs' = Tail(nbrs)
            /\ pc' = next_pc
            /\ UNCHANGED <<current, expanded, outcome, result>>
            /\ IF cost_updated
               THEN /\ costs' = MapInsert(costs, neighbor_node, tenatative)
                    /\ route' = MapInsert(route, neighbor_node, came)
                    /\ open_set' =
                          IF \E m \in open_set : is_matching(m, neighbor_node)
                          THEN {IF is_matching(m, neighbor_node)
                                THEN [m EXCEPT !.est_cost = neighbor_node.est_cost]
                                ELSE m : m \in open_set}
                          ELSE open_set \cup {neighbor_node}
                    /\ parent' = MapInsert(parent, neighbor_node, current.pos)
               ELSE UNCHANGED <<costs, route, open_set, parent>>
    /\ UNCHANGED <<inputs, apart, puzzle, finish>>

(***************************************************************************)
(* The open set is empty: find_min_node(goal).unwrap() and the first entry *)
(* of optimal_path.                                                        *)
(***************************************************************************)
FindGoal ==
    /\ pc = "loop"
    /\ open_set = {}
    /\ IF NodesAt(costs, Goal(puzzle)) = {}
       THEN /\ Panic
            /\ UNCHANGED finish
       ELSE /\ goal_node' = find_min_node(costs, Goal(puzzle))
            /\ c' = goal_node'
            /\ optimal_path' = (Goal(puzzle) :> goal_node'.last_dir)
            /\ pc' = "path"
            /\ UNCHANGED <<outcome, result>>
    /\ UNCHANGED <<inputs, apart, puzzle, search>>

(***************************************************************************)
(* One iteration of while let Some(prev) = parent.get(c).copied().         *)
(***************************************************************************)
PathStep ==
    /\ pc = "path"
    /\ IF MapHas(parent, c) /\ NodesAt(costs, MapGet(parent, c)) # {}
       THEN LET prev == MapGet(parent, c)
                prev_node == find_min_node(costs, prev)
            IN  /\ optimal_path' =
                      [p \in DOMAIN optimal_path \cup {prev} |->
                          IF p = prev THEN prev_node.last_dir ELSE optimal_path[p]]
                /\ c' = prev_node
                /\ pc' = "path"
       ELSE \* parent.get(c) is None, or break
            /\ pc' = "print"
            /\ UNCHANGED <<c, optimal_path>>
    /\ UNCHANGED <<inputs, apart, outcome, result, puzzle, search, goal_node>>

(***************************************************************************)
(* The printing loop, which indexes every cell that is not on optimal_path,*)
(* and return *goal_cost.                                                  *)
(***************************************************************************)
Return ==
    /\ pc = "print"
    /\ IF \E row \in 0..(puzzle.num_rows - 1), col \in 0..(puzzle.num_cols - 1) :
            /\ <<row, col>> \notin DOMAIN optimal_path
            /\ ~IndexOk(puzzle, <<row, col>>)
       THEN Panic
       ELSE /\ pc' = "exit"
            /\ outcome' = "ok"
            /\ result' = costs[goal_node]
    /\ UNCHANGED <<inputs, apart, puzzle, search, finish>>

(***************************************************************************)
(* a_star called once more on the puzzle, after the first call returned:   *)
(* its locals are new, self is the same.                                   *)
(***************************************************************************)
Again ==
    /\ pc = "exit"
    /\ outcome = "ok"
    /\ calls = 1
    /\ calls' = 2
    /\ first_cost' = result
    /\ LET sn == start_node(Goal(puzzle)) IN
          /\ open_set' = {sn}
          /\ costs' = first_costs(sn)
          /\ parent' = EmptyMap
          /\ route' = (sn :> <<Start>>)
    /\ current' = NoNode
    /\ nbrs' = <<>>
    /\ expanded' = <<>>
    /\ goal_node' = NoNode
    /\ c' = NoNode
    /\ optimal_path' = EmptyMap
    /\ pc' = "loop"
    /\ outcome' = "running"
    /\ UNCHANGED <<inputs, elsewhere, result, puzzle>>

Next ==
    \/ PartOne
    \/ PartTwo
    \/ Pop
    \/ Visit
    \/ FindGoal
    \/ PathStep
    \/ Return

Spec == Init /\ [][Next]_vars

\* the program is sequential: a step that can be taken is taken
FairSpec == Spec /\ WF_vars(Next)

\* part_one, and a_star called a second time when it has returned
TwiceNext == Next \/ Again

TwiceSpec == Init /\ [][TwiceNext]_vars

(***************************************************************************)
(* from_str alone, applied to the text of every grid, with and without a   *)
(* final newline, and to every arbitrary text.                             *)
(***************************************************************************)
ParseInit == InitWith({1}, BOOLEAN)

Parse ==
    /\ pc = "start"
    /\ puzzle' = from_str(input)
    /\ pc' = "parsed"
    /\ UNCHANGED <<inputs, apart, outcome, result, search, finish>>

ParseNext == Parse

ParseSpec == ParseInit /\ [][ParseNext]_vars

(***************************************************************************)
(* What the claims speak of.                                               *)
(***************************************************************************)
IsGrid == given # <<>>

IsSmallGrid == IsGrid /\ given \in SmallGrids

\* the digit of the cell at pos in the grid the input was written from
Digit(g, pos) == g[pos[1] + 1][pos[2] + 1]

GridGoal(g) == <<Len(g) - 1, Len(g[1]) - 1>>

InGrid(g, pos) ==
    /\ pos[1] >= 0 /\ pos[1] < Len(g)
    /\ pos[2] >= 0 /\ pos[2] < Len(g[1])

Delta(d) ==
    CASE d = "Up" -> <<-1, 0>> [] d = "Down" -> <<1, 0>>
      [] d = "Left" -> <<0, -1>> [] d = "Right" -> <<0, 1>>

Opposite(d) ==
    CASE d = "Up" -> "Down" [] d = "Down" -> "Up"
      [] d = "Left" -> "Right" [] d = "Right" -> "Left"

\* the direction of the step from cell a to the adjacent cell b
StepDir(a, b) ==
    CHOOSE d \in Directions : b = <<a[1] + Delta(d)[1], a[2] + Delta(d)[2]>>

\* the number of steps at the end of a path that go the same way
TrailingRun(path) ==
    IF Len(path) < 2 THEN 0
    ELSE LET last == StepDir(path[Len(path) - 1], path[Len(path)])
             same(k) == \A i \in (Len(path) - k)..(Len(path) - 1) :
                            StepDir(path[i], path[i + 1]) = last
         IN  CHOOSE k \in 1..(Len(path) - 1) :
                 /\ same(k)
                 /\ k < Len(path) - 1 => ~same(k + 1)

RECURSIVE SumEntered(_, _, _)
\* the sum of the digits of the cells path enters from its i-th cell on
SumEntered(g, path, i) ==
    IF i >= Len(path) THEN 0
    ELSE Digit(g, path[i + 1]) + SumEntered(g, path, i + 1)

(***************************************************************************)
(* The least cost of a legal path, by relaxation over the states           *)
(* <<cell, direction of the last step, length of the run it ends>>: a path *)
(* never reverses and never takes more than MAX_SAME_DIRS consecutive      *)
(* steps one way.  Unreached is the cost of a state no legal path reaches. *)
(***************************************************************************)
Unreached == 1000 * 1000

LegalStates(g) ==
    {s \in ((0..(Len(g) - 1)) \X (0..(Len(g[1]) - 1)))
            \X Directions \X (1..MAX_SAME_DIRS) :
        InGrid(g, <<s[1][1] - Delta(s[2])[1], s[1][2] - Delta(s[2])[2]>>)}

\* the costs of the legal paths that end with one more step into state s
Arrivals(g, dist, s) ==
    LET pos == s[1]
        d == s[2]
        k == s[3]
        from == <<pos[1] - Delta(d)[1], pos[2] - Delta(d)[2]>>
        preds == {q \in DOMAIN dist :
                     /\ q[1] = from
                     /\ dist[q] < Unreached
                     /\ \/ q[2] = d /\ q[3] = k - 1
                        \/ q[2] # d /\ q[2] # Opposite(d) /\ k = 1}
    IN  {dist[q] + Digit(g, pos) : q \in preds}
        \cup (IF from = Start /\ k = 1 THEN {Digit(g, pos)} ELSE {})

RECURSIVE Relax(_, _)
Relax(g, dist) ==
    LET better == [s \in DOMAIN dist |-> Min({dist[s]} \cup Arrivals(g, dist, s))]
    IN  IF better = dist THEN dist ELSE Relax(g, better)

LegalDist(g) == Relax(g, [s \in LegalStates(g) |-> Unreached])

\* the least cost of a legal path from (0,0) to the last cell, or Unreached
MinLegalCost(g) ==
    IF GridGoal(g) = Start THEN 0
    ELSE LET dist == LegalDist(g)
         IN  Min({Unreached} \cup {dist[s] : s \in {q \in DOMAIN dist : q[1] = GridGoal(g)}})

(***************************************************************************)
(* The claims.                                                             *)
(***************************************************************************)
Returned == outcome = "ok"

\* C1: for every nonempty rectangular grid of digits, part_one returns the
\* least cost of a path from (0,0) to the last cell that never reverses and
\* never takes more than 3 consecutive steps one way (stated of the runs
\* that return: the value returned is that minimum, so such a path exists).
C1_ReturnsLegalMinimum ==
    (part = 1 /\ IsGrid /\ Returned) =>
        /\ MinLegalCost(given) < Unreached
        /\ result = MinLegalCost(given)

\* the search loop of a_star is over
SearchStopped == pc \in {"path", "print", "exit"}

\* a state (pos, last_dir, moves_left) that was expanded is not expanded
\* again later at a greater cost (at one pos, a greater est_cost)
NoDearerReexpansion ==
    \A i, j \in 1..Len(expanded) :
        (i < j /\ is_matching(expanded[i], expanded[j])) =>
            expanded[j].est_cost <= expanded[i].est_cost

\* C2: on the 13x13 example grid, part_one returns 102: the call comes to
\* its return with that value, so its search loop is one that ends and on
\* the way no state is expanded again at a greater cost.
C2_ExampleReturns102 ==
    /\ (part = 1 /\ input = Render(ExampleGrid, FALSE)) =>
           <>(Returned /\ result = 102)
    /\ []((part = 1 /\ input = Render(ExampleGrid, FALSE)) =>
              NoDearerReexpansion)

\* C3: on the 13x13 example grid, part_two returns 94: once its call is
\* over, it has returned, and the value is 94.
C3_ExamplePartTwoReturns94 ==
    (part = 2 /\ given = ExampleGrid /\ pc = "exit") =>
        (Returned /\ result = 94)

\* C4: for every nonempty rectangular grid of digits the search loop
\* eventually stops, the open set having become empty, and it does not go
\* on re-inserting and re-expanding states at an ever greater cost (stated
\* of the enumerated small grids).
C4_SearchLoopStops ==
    /\ (part = 1 /\ IsSmallGrid) => <>SearchStopped
    /\ []((part = 1 /\ IsSmallGrid) => NoDearerReexpansion)

\* C5: no state is ever recorded whose path ends with more than 3
\* consecutive steps in the same direction.
C5_RunAtMostThree ==
    IsGrid => \A k \in DOMAIN route : TrailingRun(route[k]) <= MAX_SAME_DIRS

\* C6: no recorded path steps back to the cell it has just left: each
\* recorded state was entered by a step in its own heading, and no step of
\* its path is followed by the opposite step.
C6_NeverReverses ==
    \A k \in DOMAIN route :
        LET path == route[k] IN
        /\ path[1] = Start
        /\ path[Len(path)] = k.pos
        /\ Len(path) >= 2 => StepDir(path[Len(path) - 1], path[Len(path)]) = k.last_dir
        /\ \A i \in 1..(Len(path) - 2) : path[i + 2] # path[i]

\* a state whose way back to the cell it was entered from has been looked
\* at (and, by C6, rejected): that neighbour is no longer waiting in nbrs
C6_Witness ==
    /\ pc = "visit"
    /\ IsGrid
    /\ MapHas(parent, current)
    /\ \A i \in 1..Len(nbrs) : <<nbrs[i][2], nbrs[i][3]>> # MapGet(parent, current)

\* C7: every recorded cost, and so the cost returned, is the sum of the
\* digits of the cells entered along the path, the start cell's digit not
\* included; the value returned is the cost of a path from the start to
\* the goal.
C7_CostIsSumOfEntered ==
    IsGrid =>
        /\ \A k \in DOMAIN costs : costs[k] = SumEntered(given, route[k], 1)
        /\ Returned =>
              /\ goal_node \in DOMAIN costs
              /\ result = SumEntered(given, route[goal_node], 1)
              /\ route[goal_node][1] = Start
              /\ route[goal_node][Len(route[goal_node])] = GridGoal(given)

\* a returned cost over a path that enters cells, from a start cell whose
\* own digit is not 0
C7_Witness ==
    /\ IsGrid
    /\ Returned
    /\ Digit(given, Start) > 0
    /\ result > 0
    /\ Len(route[goal_node]) > 2

\* C8: when the open set is exhausted and no state at the goal was ever
\* recorded, the solver reports a "not found" outcome and does not panic.
C8_NoPathIsReported ==
    (/\ part = 1
     /\ IsGrid
     /\ pc = "exit"
     /\ open_set = {}
     /\ costs # EmptyMap
     /\ NodesAt(costs, Goal(puzzle)) = {}) => outcome = "err"

\* C9: for every input that is not a nonempty rectangular grid of ASCII
\* digits, from_str returns an error and part_one propagates it: once
\* part_one has parsed such an input, the outcome is an Err and nothing
\* was searched.
C9_MalformedIsRejected ==
    (part = 1 /\ pc # "start" /\ ~WellFormed(input)) =>
        (outcome = "err" /\ costs = EmptyMap)

\* C10: for an input of R lines of C digits, with or without one final
\* newline, from_str yields num_rows = R, num_cols = C and R * C bytes,
\* with puzzle[(r, c)] the digit at line r, column c.
C10_ParsedLayout ==
    (part = 1 /\ pc # "start" /\ IsGrid) =>
        /\ puzzle.num_rows = Len(given)
        /\ puzzle.num_cols = Len(given[1])
        /\ Len(puzzle.nodes) = Len(given) * Len(given[1])
        /\ \A r \in 0..(Len(given) - 1), col \in 0..(Len(given[1]) - 1) :
              /\ IndexOk(puzzle, <<r, col>>)
              /\ Cell(puzzle, <<r, col>>) = ZERO + Digit(given, <<r, col>>)

\* a parsed grid of several rows and columns whose text ends with '\n'
C10_Witness ==
    /\ part = 1
    /\ pc # "start"
    /\ IsGrid
    /\ Len(given) > 1
    /\ Len(given[1]) > 1
    /\ input[Len(input)] = NL
    /\ puzzle.num_rows = Len(given)
    /\ puzzle.num_cols = Len(given[1])

\* C11: on a 1x1 grid, where the start is the goal, the call returns 0
\* whatever the digit of the cell is.
C11_OneCellCostsNothing ==
    (part = 1 /\ IsGrid /\ GridGoal(given) = Start /\ pc = "exit") =>
        (Returned /\ result = 0)

\* the call has returned on a 1x1 grid whose digit is not 0
C11_Witness ==
    /\ part = 1
    /\ IsGrid
    /\ GridGoal(given) = Start
    /\ Digit(given, Start) > 0
    /\ pc = "exit"
    /\ Returned

\* C20: the first time a state whose position is the goal is popped from
\* the open set the search stops expanding and that state's accumulated
\* cost is returned: the popped goal state is the last state popped, none
\* of its neighbours is visited, and the value returned is its cost.
C20_StopsAtFirstGoalPop ==
    (part = 1 /\ IsGrid) =>
        \A i \in 1..Len(expanded) :
            expanded[i].pos = GridGoal(given) =>
                /\ i = Len(expanded)
                /\ pc # "visit"
                /\ Returned => result = MapGet(costs, expanded[i])

VisitAllowed ==
    /\ pc = "visit"
    /\ is_allowed(parent, current, Head(nbrs)[1],
                  <<Head(nbrs)[2], Head(nbrs)[3]>>)
    /\ IndexOk(puzzle, <<Head(nbrs)[2], Head(nbrs)[3]>>)

\* the neighbor_node that iteration makes
Generated ==
    LET n == <<Head(nbrs)[2], Head(nbrs)[3]>>
    IN  Node(n, Head(nbrs)[1], next_moves_left(current, Head(nbrs)[1]),
             Tenatative(costs, current, Cell(puzzle, n)) + h(n, Goal(puzzle)))

\* C21: the search keeps its books by (position, direction, run counter):
\* a state generated with a heading is an entry of its own of the cost
\* table and the parent table, and of the open set when it is new, whatever
\* was recorded at its position and run counter with another heading; and
\* no entry of the cost table is lost.
C21_HeadingsTrackedApart ==
    [][(part = 1 /\ IsGrid /\ VisitAllowed) =>
          /\ \E k \in DOMAIN costs' : is_matching(k, Generated)
          /\ \E k \in DOMAIN parent' : is_matching(k, Generated)
          /\ (~\E k \in DOMAIN costs : is_matching(k, Generated)) =>
                \E m \in open_set' : is_matching(m, Generated)
          /\ \A k \in DOMAIN costs :
                \E k2 \in DOMAIN costs' : is_matching(k2, k)]_vars

\* C22: the cost table has at most one entry for a (position, direction,
\* run counter), and a generated state is recorded and pushed, or has its
\* priority changed, only when the table had no entry for its triple or
\* its cost is lower than the one recorded: a state reached again at a
\* cost that is not lower leaves the table and the open set as they were.
C22_OneEntryPerTriple ==
    /\ [](\A k1, k2 \in DOMAIN costs : is_matching(k1, k2) => k1 = k2)
    /\ [][(part = 1 /\ IsGrid /\ VisitAllowed
             /\ \E k \in DOMAIN costs :
                   /\ is_matching(k, Generated)
                   /\ costs[k] <= Tenatative(costs, current,
                                             Cell(puzzle, Generated.pos)))
          => (costs' = costs /\ open_set' = open_set)]_vars

\* the open set holds a start state with this heading: at the origin, with
\* no step of a run taken and at cost 0
Seeded(dir) ==
    \E n \in open_set :
        /\ n.pos = Start
        /\ n.last_dir = dir
        /\ MAX_SAME_DIRS - n.moves_left = 0
        /\ MapHas(costs, n)
        /\ MapGet(costs, n) = 0

\* the path leaves the origin and keeps to one direction
StraightFromStart(path) ==
    /\ Len(path) >= 2
    /\ path[1] = Start
    /\ TrailingRun(path) = Len(path) - 1

\* C23: when the search loop begins the open set holds two start states
\* at the origin, one heading Right and one heading Down, both with run
\* length 0 and cost 0; and the first moves Right and the first moves Down
\* have one run limit: no recorded path runs straight from the origin for
\* more than 3 steps, to the right or down.
C23_TwoStartStates ==
    (part = 1 /\ IsGrid) =>
        /\ (pc = "loop" /\ expanded = <<>>) =>
              /\ Seeded("Right")
              /\ Seeded("Down")
              /\ Cardinality(open_set) = 2
        /\ \A k \in DOMAIN route :
              StraightFromStart(route[k]) =>
                  Len(route[k]) - 1 <= MAX_SAME_DIRS

\* the seeding of C23 apart from its run limit
SeededTwice ==
    (part = 1 /\ IsGrid /\ pc = "loop" /\ expanded = <<>>) =>
        (Seeded("Right") /\ Seeded("Down"))

\* the run limit of C23 apart from its seeding
FirstRunsLimited ==
    (part = 1 /\ IsGrid) =>
        \A k \in DOMAIN route :
            StraightFromStart(route[k]) =>
                Len(route[k]) - 1 <= MAX_SAME_DIRS

\* C24: for every grid of digits 0-9 the open set is popped in
\* non-decreasing order of est_cost, which is the accumulated cost plus the
\* Manhattan distance to the goal, and the Manhattan distance from a cell
\* is never more than the true cost that remains from there to the goal:
\* not more than the cost of the rest of any recorded path to the goal.
C24_PoppedInCostOrder ==
    (part = 1 /\ IsGrid) =>
        /\ \A n \in open_set :
              n.est_cost = MapGet(costs, n) + h(n.pos, GridGoal(given))
        /\ \A i \in 1..(Len(expanded) - 1) :
              expanded[i].est_cost <= expanded[i + 1].est_cost
        /\ \A k \in DOMAIN route :
              k.pos = GridGoal(given) =>
                  \A i \in 1..Len(route[k]) :
                      h(route[k][i], GridGoal(given))
                          <= SumEntered(given, route[k], i)

\* no cell of the grid is free to enter
PositiveGrid ==
    IsGrid /\ \A r \in 1..Len(given) : \A col \in 1..Len(given[r]) :
                  given[r][col] >= 1

\* on the grids without a 0 the open set is popped in cost order and the
\* Manhattan distance is not more than the cost that remains
PoppedInCostOrderWhenPositive == PositiveGrid => C24_PoppedInCostOrder

(***************************************************************************)
(* day05: NonOverlappingRanges and MappingRange::lookup_range.             *)
(* A Range a..b is <<a, b>>; an Option is <<>> for None, the value for     *)
(* Some.  A BTreeMap<usize, usize> is a function on the set of its keys.   *)
(***************************************************************************)
\* ranges start at 0 .. MaxStart and are 0 .. MaxLen long
MaxStart == 3
MaxLen == 3
\* a NonOverlappingRanges is built from at most MaxRanges ranges
MaxRanges == 3

Max(S) == CHOOSE x \in S : \A y \in S : y <= x

\* the position of a cursor that is on no element
Ghost == 0 - 1

\* lower_bound_mut(Bound::Unbounded): the cursor on the first element
first_key(m) == IF DOMAIN m = {} THEN Ghost ELSE Min(DOMAIN m)

\* the element after the one at key k, or Ghost
key_after(m, k) ==
    LET later == {j \in DOMAIN m : j > k}
    IN  IF later = {} THEN Ghost ELSE Min(later)

\* the map without its element at key k
without(m, k) == [j \in DOMAIN m \ {k} |-> m[j]]

\* Range::contains
contains(r, x) == r[1] <= x /\ x < r[2]

RECURSIVE new_loop(_, _)
\* the while loop of NonOverlappingRanges::new, the cursor cur at key cur.
\* remove_current leaves the cursor on the element after the removed one.
new_loop(ranges, cur) ==
    IF cur = Ghost THEN ranges
    ELSE LET current_range == <<cur, ranges[cur]>>
             nxt == key_after(ranges, cur)
         IN  IF nxt = Ghost THEN ranges
             ELSE LET next_range == <<nxt, ranges[nxt]>>
                      beyond == key_after(ranges, nxt)
                  IN  IF /\ contains(current_range, next_range[1])
                         /\ contains(current_range, next_range[2])
                      THEN \* 1. move_next, remove_current
                           new_loop(without(ranges, nxt), beyond)
                      ELSE IF /\ contains(current_range, next_range[1])
                              /\ ~contains(current_range, next_range[2])
                      THEN \* 2. value_mut, move_next, remove_current
                           new_loop(without([ranges EXCEPT ![cur] = next_range[2]],
                                            nxt),
                                    beyond)
                      ELSE \* 3. move_next
                           new_loop(ranges, nxt)

\* NonOverlappingRanges::new
new(ranges) == new_loop(ranges, first_key(ranges))

\* collect() into a BTreeMap: of two pairs with one key the later stays
collect(pairs) ==
    [k \in {pairs[i][1] : i \in DOMAIN pairs} |->
        pairs[Max({i \in DOMAIN pairs : pairs[i][1] = k})][2]]

\* seed_ranges.chunks_exact(2), each chunk (start, len) made (start, start + len)
chunks(seed_ranges) ==
    [i \in 1..(Len(seed_ranges) \div 2) |->
        <<seed_ranges[2 * i - 1], seed_ranges[2 * i - 1] + seed_ranges[2 * i]>>]

\* NonOverlappingRanges::from_seeds
from_seeds(seed_ranges) == new(collect(chunks(seed_ranges)))

\* NonOverlappingRanges::from_iter: at one start the greatest end is kept
from_iter(pairs) ==
    new([k \in {pairs[i][1] : i \in DOMAIN pairs} |->
            Max({pairs[i][2] : i \in {j \in DOMAIN pairs : pairs[j][1] = k}})])

RECURSIVE flat(_)
\* the slice of seeds and lengths that names the ranges of its
flat(its) ==
    IF its = <<>> THEN <<>> ELSE <<Head(its)[1], Head(its)[2]>> \o flat(Tail(its))

\* the ranges of its as (start, end) pairs
as_pairs(its) == [i \in DOMAIN its |-> <<its[i][1], its[i][1] + its[i][2]>>]

\* what day05 leaves alone
beside05 == <<day14, day15, day22, day17, day20, day16>>

Beside05Idle == Day14Idle /\ Day15Idle /\ Day22Idle /\ Day17Idle /\ Day20Idle /\ Day16Idle

ItemLists ==
    UNION {[1..n -> (0..MaxStart) \X (0..MaxLen)] : n \in 0..MaxRanges}

RangesInit ==
    /\ items \in ItemLists
    /\ made = "none"
    /\ nor = <<>>
    /\ mapping_range = <<>>
    /\ query = <<>>
    /\ looked = <<>>
    /\ Beside05Idle

FromSeeds ==
    /\ made = "none"
    /\ nor' = from_seeds(flat(items))
    /\ made' = "from_seeds"
    /\ UNCHANGED <<items, mapping_range, query, looked, beside05>>

FromIter ==
    /\ made = "none"
    /\ nor' = from_iter(as_pairs(items))
    /\ made' = "from_iter"
    /\ UNCHANGED <<items, mapping_range, query, looked, beside05>>

RangesNext == FromSeeds \/ FromIter

RangesSpec == RangesInit /\ [][RangesNext]_vars

\* the points of the range a..b
Points(r) == {x \in r[1]..(r[2] - 1) : TRUE}

StoredRanges == {<<k, nor[k]>> : k \in DOMAIN nor}

MaxDest == 3

MappingRange(dest_start, src_start, len) ==
    [dest_start |-> dest_start, src_start |-> src_start, len |-> len]

\* the end of the source range taken for its last element
src_range_end_inclusive(mr) == mr.src_start + mr.len - 1

\* the end of src_range = self.src_start..self.src_start + self.len
src_range_end(mr) == mr.src_start + mr.len

\* what unreachable!() leaves: a panic
Unreachable == <<"unreachable">>

\* MappingRange::lookup_range: <<prefix, middle, suffix>>
lookup_range(mr, in) ==
    LET src_start == mr.src_start
        src_end == src_range_end(mr)
        dest_start == mr.dest_start
    IN  IF in[2] <= src_start THEN <<in, <<>>, <<>>>>
        ELSE IF in[1] >= src_end THEN <<<<>>, <<>>, in>>
        ELSE IF in[1] < src_start /\ in[2] <= src_end
        THEN LET overlap == in[2] - src_start
             IN  <<<<in[1], src_start>>, <<dest_start, dest_start + overlap>>, <<>>>>
        ELSE IF in[1] >= src_start /\ in[2] <= src_end
        THEN LET offset == in[1] - src_start
                 overlap == in[2] - in[1]
             IN  <<<<>>, <<dest_start + offset, dest_start + offset + overlap>>, <<>>>>
        ELSE IF in[1] >= src_start /\ in[1] < src_end /\ in[2] >= src_end
        THEN LET offset == in[1] - src_start
                 overlap == src_end - in[1]
             IN  <<<<>>, <<dest_start + offset, dest_start + offset + overlap>>,
                   <<in[1] + overlap, in[2]>>>>
        ELSE IF in[1] < src_start /\ in[2] >= src_end
        THEN <<<<in[1], src_start>>, <<dest_start, dest_start + mr.len>>,
               <<src_end, in[2]>>>>
        ELSE Unreachable

LookupInit ==
    /\ mapping_range \in
          {MappingRange(d, st, l) :
              d \in 0..MaxDest, st \in 0..MaxStart, l \in 0..MaxLen}
    /\ query \in {<<a, a + l>> :
                     a \in 0..(MaxStart + MaxLen + 1), l \in 0..(MaxLen + 2)}
    /\ looked = <<>>
    /\ items = <<>>
    /\ made = "idle"
    /\ nor = <<>>
    /\ Beside05Idle

LookupRange ==
    /\ looked = <<>>
    /\ looked' = lookup_range(mapping_range, query)
    /\ UNCHANGED <<items, made, nor, mapping_range, query, beside05>>

LookupNext == LookupRange

LookupSpec == LookupInit /\ [][LookupNext]_vars

\* the points and the length of an Option<Range>
OptPoints(o) == IF o = <<>> THEN {} ELSE Points(o)

OptLen(o) == IF o = <<>> THEN 0 ELSE o[2] - o[1]

\* C15: lookup_range splits every nonempty input range into <<prefix,
\* middle, suffix>>: prefix is the part of the input below src_start, as
\* it is; suffix the part at or above src_start + len, as it is; middle
\* the part inside the source range, moved by dest_start - src_start; and
\* the three lengths add up to the length of the input.
C15_LookupRangeSplits ==
    (looked # <<>> /\ query[1] < query[2]) =>
        LET src_start == mapping_range.src_start
            src_end == mapping_range.src_start + mapping_range.len
            dest_start == mapping_range.dest_start
        IN  /\ Len(looked) = 3
            /\ OptPoints(looked[1]) = {x \in Points(query) : x < src_start}
            /\ OptPoints(looked[3]) = {x \in Points(query) : x >= src_end}
            /\ OptPoints(looked[2]) =
                  {x - src_start + dest_start :
                      x \in {y \in Points(query) : src_start <= y /\ y < src_end}}
            /\ OptLen(looked[1]) + OptLen(looked[2]) + OptLen(looked[3])
                  = query[2] - query[1]

\* an input that reaches over both ends of the source range was split
\* into three parts
C15_Witness ==
    /\ Len(looked) = 3
    /\ looked[1] # <<>>
    /\ looked[2] # <<>>
    /\ looked[3] # <<>>
    /\ OptLen(looked[2]) > 1
    /\ mapping_range.dest_start # mapping_range.src_start

(***************************************************************************)
(* day14: the tilts, compute_score, detect_cycles and part_two.            *)
(***************************************************************************)
\* the grids given to part_one and part_two have at most MaxPlatform cells
MaxPlatform == 4
\* detect_cycles is also run on every function on MaxOrbit puzzles
MaxOrbit == 4

ONE_BILLION == 1000000000

\* what day14 leaves alone
beside14 == <<day05, day15, day22, day17, day20, day16>>

Beside14Idle == Day05Idle /\ Day15Idle /\ Day22Idle /\ Day17Idle /\ Day20Idle /\ Day16Idle

\* Puzzle::num_cols
num_cols(rows) == IF rows = <<>> THEN 0 ELSE Len(rows[1])

\* self.rows[r].replace_range(col..col + 1, ch)
replace_range(rows, cell, ch) == [rows EXCEPT ![cell[1]][cell[2]] = ch]

RECURSIVE slide_line(_, _, _, _)
\* the inner loop of a slide: cells are the cells of one column or row in
\* the order the loop visits them, k the cell reached, slot the place in
\* cells of slot_idx (0 for None)
slide_line(rows, cells, k, slot) ==
    IF k > Len(cells) THEN rows
    ELSE LET ch == rows[cells[k][1]][cells[k][2]]
         IN  IF ch = "."
             THEN slide_line(rows, cells, k + 1, IF slot = 0 THEN k ELSE slot)
             ELSE IF ch = "O"
             THEN IF slot # 0
                  THEN slide_line(
                           replace_range(replace_range(rows, cells[slot], "O"),
                                         cells[k], "."),
                           cells, k + 1, slot + 1)
                  ELSE slide_line(rows, cells, k + 1, 0)
             ELSE slide_line(rows, cells, k + 1, 0)

RECURSIVE slide_lines(_, _, _)
\* the outer loop of a slide, over the columns or the rows
slide_lines(rows, lines, j) ==
    IF j > Len(lines) THEN rows
    ELSE slide_lines(slide_line(rows, lines[j], 1, 0), lines, j + 1)

slide_north(rows) ==
    slide_lines(rows,
                [col \in 1..num_cols(rows) |->
                    [k \in 1..Len(rows) |-> <<k, col>>]],
                1)

slide_south(rows) ==
    slide_lines(rows,
                [col \in 1..num_cols(rows) |->
                    [k \in 1..Len(rows) |-> <<Len(rows) + 1 - k, col>>]],
                1)

slide_west(rows) ==
    slide_lines(rows,
                [row \in 1..Len(rows) |->
                    [k \in 1..num_cols(rows) |-> <<row, k>>]],
                1)

slide_east(rows) ==
    slide_lines(rows,
                [row \in 1..Len(rows) |->
                    [k \in 1..num_cols(rows) |-> <<row, num_cols(rows) + 1 - k>>]],
                1)

\* Puzzle::tilt_cycle
tilt_cycle(rows) == slide_east(slide_south(slide_west(slide_north(rows))))

RECURSIVE SumOf(_, _)
\* the sum of term(x) over the elements x of S
SumOf(S, term) ==
    IF S = {} THEN 0
    ELSE LET x == CHOOSE y \in S : TRUE
         IN  term[x] + SumOf(S \ {x}, term)

\* the cells of rows that hold a rounded rock
Rocks(rows) ==
    {cell \in (1..Len(rows)) \X (1..num_cols(rows)) :
        rows[cell[1]][cell[2]] = "O"}

\* let total_len = self.num_cols() as u32
total_len(rows) == num_cols(rows)

\* Puzzle::compute_score: <<"ok", the sum>>.  Where total_len - idx as u32
\* overflows, a build that checks it panics, <<"panic">>, and one that
\* does not returns a sum that went round 2^32, <<"wrapped">>.
compute_score(rows, checks) ==
    LET idx(cell) == cell[1] - 1
    IN  IF \E cell \in Rocks(rows) : idx(cell) > total_len(rows)
        THEN IF checks THEN <<"panic">> ELSE <<"wrapped">>
        ELSE <<"ok",
               SumOf(Rocks(rows),
                     [cell \in Rocks(rows) |-> total_len(rows) - idx(cell)])>>

\* the index taken within the cycle without the mu entries before it
nth_entry_within_cycle(m, l) == ONE_BILLION % l

\* idx_within_cycle = (1_000_000_000 - mu) % lambda; n = mu + idx_within_cycle
nth_entry(m, l) == m + ((ONE_BILLION - m) % l)

\* the function f of detect_cycles applied to a puzzle
apply(fn, x) == IF fn.name = "tilt_cycle" THEN tilt_cycle(x) ELSE fn.table[x]

Tiles == {"O", ".", "#"}

\* the rectangular grids of at most MaxPlatform cells
Platforms ==
    UNION {[1..r -> [1..col -> Tiles]] :
              <<r, col>> \in {sh \in (1..MaxPlatform) \X (1..MaxPlatform) :
                                  sh[1] * sh[2] <= MaxPlatform}}

\* MaxOrbit puzzles: one row of MaxOrbit cells with a single rounded rock
OrbitPuzzles ==
    {<<[k \in 1..MaxOrbit |-> IF k = j THEN "O" ELSE "."]>> : j \in 1..MaxOrbit}

Day14Init ==
    /\ \/ /\ part14 \in {1, 2}
          /\ puz \in Platforms
          /\ f = [name |-> "tilt_cycle"]
       \/ /\ part14 = 2
          /\ puz \in OrbitPuzzles
          /\ \E t \in [OrbitPuzzles -> OrbitPuzzles] :
                f = [name |-> "table", table |-> t]
    /\ x0 = <<>>
    /\ tortoise = <<>>
    /\ hare = <<>>
    /\ power = 0
    /\ lambda = 0
    /\ mu = 0
    /\ nth = 0
    /\ done = 0
    /\ score = <<>>
    /\ pc14 = "start"
    /\ Beside14Idle

\* part_one: p.slide_north()
SlideNorth ==
    /\ pc14 = "start"
    /\ part14 = 1
    /\ puz' = slide_north(puz)
    /\ pc14' = "score"
    /\ UNCHANGED <<part14, f, detecting, nth, done, score, beside14>>

\* detect_cycles up to its first loop
DetectCycles ==
    /\ pc14 = "start"
    /\ part14 = 2
    /\ x0' = puz
    /\ power' = 1
    /\ lambda' = 1
    /\ tortoise' = puz
    /\ hare' = apply(f, puz)
    /\ pc14' = "main"
    /\ UNCHANGED <<part14, puz, f, mu, nth, done, score, beside14>>

\* one iteration of while tortoise != hare (main phase), or its end and
\* tortoise = x0.clone(); hare = x0.clone()
MainPhase ==
    /\ pc14 = "main"
    /\ IF tortoise # hare
       THEN /\ IF power = lambda
               THEN /\ tortoise' = hare
                    /\ power' = power * 2
                    /\ lambda' = 0 + 1
               ELSE /\ lambda' = lambda + 1
                    /\ UNCHANGED <<tortoise, power>>
            /\ hare' = apply(f, hare)
            /\ UNCHANGED <<pc14, done>>
       ELSE /\ tortoise' = x0
            /\ hare' = x0
            /\ done' = 0
            /\ pc14' = "position"
            /\ UNCHANGED <<power, lambda>>
    /\ UNCHANGED <<part14, puz, f, x0, mu, nth, score, beside14>>

\* one iteration of for _ in 0..lambda, or its end and mu = 0
Position ==
    /\ pc14 = "position"
    /\ IF done < lambda
       THEN /\ hare' = apply(f, hare)
            /\ done' = done + 1
            /\ UNCHANGED <<pc14, mu>>
       ELSE /\ mu' = 0
            /\ pc14' = "find_mu"
            /\ UNCHANGED <<hare, done>>
    /\ UNCHANGED <<part14, puz, f, x0, tortoise, power, lambda, nth, score,
                   beside14>>

\* one iteration of the second while tortoise != hare, or the return of
\* (mu, lambda) and part_two's idx_within_cycle and n
FindMu ==
    /\ pc14 = "find_mu"
    /\ IF tortoise # hare
       THEN /\ tortoise' = apply(f, tortoise)
            /\ hare' = apply(f, hare)
            /\ mu' = mu + 1
            /\ UNCHANGED <<pc14, nth, done>>
       ELSE /\ nth' = nth_entry(mu, lambda)
            /\ done' = 0
            /\ pc14' = "tilt"
            /\ UNCHANGED <<tortoise, hare, mu>>
    /\ UNCHANGED <<part14, puz, f, x0, power, lambda, score, beside14>>

\* one iteration of for _ in 0..n { p = p.tilt_cycle() }, or its end
Tilt ==
    /\ pc14 = "tilt"
    /\ IF done < nth
       THEN /\ puz' = apply(f, puz)
            /\ done' = done + 1
            /\ UNCHANGED pc14
       ELSE /\ pc14' = "score"
            /\ UNCHANGED <<puz, done>>
    /\ UNCHANGED <<part14, f, detecting, nth, score, beside14>>

\* Ok(p.compute_score()), in a build that checks overflow or one that wraps
Score ==
    /\ pc14 = "score"
    /\ \E checks \in BOOLEAN : score' = compute_score(puz, checks)
    /\ pc14' = "exit"
    /\ UNCHANGED <<part14, puz, f, detecting, nth, done, beside14>>

Day14Next ==
    \/ SlideNorth
    \/ DetectCycles
    \/ MainPhase
    \/ Position
    \/ FindMu
    \/ Tilt
    \/ Score

Day14Spec == Day14Init /\ [][Day14Next]_vars

RECURSIVE Iter(_, _, _)
\* fn applied k times to x
Iter(fn, x, k) == IF k = 0 THEN x ELSE Iter(fn, apply(fn, x), k - 1)

RECURSIVE OrbitFrom(_, _, _)
\* the puzzles reached from x by applying fn, seen being those found so far
OrbitFrom(fn, x, seen) ==
    IF x \in seen THEN seen ELSE OrbitFrom(fn, apply(fn, x), seen \cup {x})

\* the image of y under the table t, a set of pairs <<y, t(y)>>
Image(t, y) == (CHOOSE pair \in t : pair[1] = y)[2]

RECURSIVE PowerOf(_, _)
\* the table t composed with itself k times, by squaring
PowerOf(t, k) ==
    IF k = 0 THEN {<<pair[1], pair[1]>> : pair \in t}
    ELSE IF k % 2 = 0
    THEN LET half == PowerOf(t, k \div 2)
         IN  {<<pair[1], Image(half, pair[2])>> : pair \in half}
    ELSE LET rest == PowerOf(t, k - 1)
         IN  {<<pair[1], Image(t, pair[2])>> : pair \in rest}

\* fn applied ONE_BILLION times to x
AfterABillion(fn, x) ==
    Image(PowerOf({<<y, apply(fn, y)>> : y \in OrbitFrom(fn, x, {})},
                  ONE_BILLION),
          x)

C17_ScoreFromSouthernEdge ==
    (pc14 = "exit") =>
        score = <<"ok",
                  SumOf(Rocks(puz),
                        [cell \in Rocks(puz) |-> Len(puz) - (cell[1] - 1)])>>

(***************************************************************************)
(* day15: Label::hash and the boxes of part_two.  A label is the sequence  *)
(* of its bytes; an instruction is <<"=", label, focal length>> for        *)
(* Equals(l, f) and <<"-", label>> for Dash(l); a lens is <<label, f>>.    *)
(***************************************************************************)
\* the focal lengths of the instructions are 1..MaxFocal
MaxFocal == 2
\* part_two is given at most MaxInstr instructions
MaxInstr == 4

\* what day15 leaves alone
beside15 == <<day05, day14, day22, day17, day20, day16>>

Beside15Idle == Day05Idle /\ Day14Idle /\ Day22Idle /\ Day17Idle /\ Day20Idle /\ Day16Idle

\* the labels rn, cm, qp and pc of the tests' INPUT, as bytes
Labels == {<<114, 110>>, <<99, 109>>, <<113, 112>>, <<112, 99>>}

RECURSIVE hash_fold(_, _, _)
\* .fold(0u32, |acc, ch| ((acc + ch as u32) * 17) % 256), from byte k on
hash_fold(bytes, k, acc) ==
    IF k > Len(bytes) THEN acc
    ELSE hash_fold(bytes, k + 1, ((acc + bytes[k]) * 17) % 256)

\* Label::hash
hash(l) == hash_fold(l, 1, 0)

\* lenses.iter_mut().position(|(li, _)| li == l): the first place of a lens
\* labelled l, from 1; 0 for None
position(lenses, l) ==
    IF \E i \in 1..Len(lenses) : lenses[i][1] = l
    THEN Min({i \in 1..Len(lenses) : lenses[i][1] = l})
    ELSE 0

\* lenses.remove(x)
remove(lenses, x) ==
    [i \in 1..(Len(lenses) - 1) |-> IF i < x THEN lenses[i] ELSE lenses[i + 1]]

\* the arm of Equals(l, f) without its find: lenses.push((l, f))
equals_always_push(lenses, l, fl) == Append(lenses, <<l, fl>>)

\* the arm of Equals(l, f): find the first lens labelled l and overwrite
\* it, or push
equals(lenses, l, fl) ==
    IF position(lenses, l) # 0
    THEN [lenses EXCEPT ![position(lenses, l)] = <<l, fl>>]
    ELSE Append(lenses, <<l, fl>>)

\* the arm of Dash(l)
dash(lenses, l) ==
    IF position(lenses, l) # 0
    THEN remove(lenses, position(lenses, l))
    ELSE lenses

\* let mut boxes = vec![Vec::new(); 256]
Day15Init ==
    /\ boxes = [b \in 0..255 |-> <<>>]
    /\ instr = <<>>
    /\ before = [b \in 0..255 |-> <<>>]
    /\ count15 = 0
    /\ Beside15Idle

\* one iteration of for i in instructions, i = Equals(l, fl)
Equals(l, fl) ==
    /\ count15 < MaxInstr
    /\ boxes' = [boxes EXCEPT ![hash(l)] = equals(boxes[hash(l)], l, fl)]
    /\ instr' = <<"=", l, fl>>
    /\ before' = boxes
    /\ count15' = count15 + 1
    /\ UNCHANGED beside15

\* one iteration of for i in instructions, i = Dash(l)
Dash(l) ==
    /\ count15 < MaxInstr
    /\ boxes' = [boxes EXCEPT ![hash(l)] = dash(boxes[hash(l)], l)]
    /\ instr' = <<"-", l>>
    /\ before' = boxes
    /\ count15' = count15 + 1
    /\ UNCHANGED beside15

Day15Next ==
    \/ \E l \in Labels, fl \in 1..MaxFocal : Equals(l, fl)
    \/ \E l \in Labels : Dash(l)

Day15Spec == Day15Init /\ [][Day15Next]_vars

\* the labels of the lenses of a box, in the order of the box
LabelsOf(lenses) == [i \in 1..Len(lenses) |-> lenses[i][1]]

\* the boxes other than b are as they were before the last instruction
OthersKept(b) == \A other \in (0..255) \ {b} : boxes[other] = before[other]

MaxVolume == 6
\* the input has at most MaxBricks bricks
MaxBricks == 4
\* fall is called MaxFalls times
MaxFalls == 2

\* what day22 leaves alone
beside22 == <<day05, day14, day15, day17, day20, day16>>

Beside22Idle == Day05Idle /\ Day14Idle /\ Day15Idle /\ Day17Idle /\ Day20Idle /\ Day16Idle

\* struct Brick
Brick(p1, p2) == [start |-> p1, end |-> p2]

\* Brick::z_min
z_min(b) == IF b.start[3] <= b.end[3] THEN b.start[3] ELSE b.end[3]

\* Brick::z_max
z_max(b) == IF b.start[3] >= b.end[3] THEN b.start[3] ELSE b.end[3]

\* the derived Ord of Vec3: x, then y, then z
vec3_cmp(a, b) ==
    IF a[1] # b[1] THEN (IF a[1] < b[1] THEN "Less" ELSE "Greater")
    ELSE IF a[2] # b[2] THEN (IF a[2] < b[2] THEN "Less" ELSE "Greater")
    ELSE IF a[3] # b[3] THEN (IF a[3] < b[3] THEN "Less" ELSE "Greater")
    ELSE "Equal"

\* Ord for Brick: z_min, then start, then end
brick_cmp(a, b) ==
    IF z_min(a) # z_min(b)
    THEN (IF z_min(a) < z_min(b) THEN "Less" ELSE "Greater")
    ELSE IF vec3_cmp(a.start, b.start) # "Equal"
    THEN vec3_cmp(a.start, b.start)
    ELSE vec3_cmp(a.end, b.end)

RECURSIVE into_iter(_)
\* BTreeSet::into_iter().collect(): the bricks in the order of Ord
into_iter(set) ==
    IF set = {} THEN <<>>
    ELSE LET least == CHOOSE b \in set :
                          \A o \in set \ {b} : brick_cmp(b, o) = "Less"
         IN  <<least>> \o into_iter(set \ {least})

\* Brick::intersects_xy
intersects_xy(self, other) ==
    LET x_intersects == self.end[1] >= other.start[1]
                            /\ other.end[1] >= self.start[1]
        y_intersects == self.end[2] >= other.start[2]
                            /\ other.end[2] >= self.start[2]
    IN  x_intersects /\ y_intersects

\* let diff = self.z_min().saturating_sub(z), within i32
z_diff(b, z) == z_min(b) - z

\* Brick::move_down_to_z: the brick after the call
move_down_to_z(b, z) ==
    Brick(<<b.start[1], b.start[2], b.start[3] - z_diff(b, z)>>,
          <<b.end[1], b.end[2], b.end[3] - z_diff(b, z)>>)

\* the highest z_max of the bricks before place i that intersect brick i,
\* .max().unwrap_or(0)
highest_z(sorted, i) ==
    LET below == {z_max(sorted[j]) :
                     j \in {k \in 1..(i - 1) :
                               intersects_xy(sorted[k], sorted[i])}}
    IN  IF below = {} THEN 0 ELSE Max(below)

\* the sides of the boxes: x, y and z
Boxes ==
    {dims \in (1..MaxVolume) \X (1..MaxVolume) \X (1..MaxVolume) :
        dims[1] * dims[2] * dims[3] <= MaxVolume}

\* the cubes of a box
CubesOf(dims) ==
    (0..(dims[1] - 1)) \X (0..(dims[2] - 1)) \X (1..dims[3])

\* the lower and the higher end of a brick on an axis
Lo(b, axis) ==
    IF b.start[axis] <= b.end[axis] THEN b.start[axis] ELSE b.end[axis]

Hi(b, axis) ==
    IF b.start[axis] >= b.end[axis] THEN b.start[axis] ELSE b.end[axis]

\* two bricks share a column: some x, y is within both
OverlapXY(a, b) ==
    \A axis \in 1..2 : Lo(a, axis) <= Hi(b, axis) /\ Lo(b, axis) <= Hi(a, axis)

\* two bricks share a cube
OverlapInSpace(a, b) ==
    \A axis \in 1..3 : Lo(a, axis) <= Hi(b, axis) /\ Lo(b, axis) <= Hi(a, axis)

\* the bricks within a box: straight lines of cubes, their two ends given
\* in either order
BricksIn(dims) ==
    {Brick(ends[1], ends[2]) :
        ends \in {pq \in CubesOf(dims) \X CubesOf(dims) :
                     Cardinality({axis \in 1..3 :
                                     pq[1][axis] # pq[2][axis]}) <= 1}}

RECURSIVE PilesIn(_, _)
\* the sets of at most k bricks within a box no two of which share a cube
PilesIn(dims, k) ==
    IF k = 0 THEN {{}}
    ELSE PilesIn(dims, k - 1) \cup
         {pb[1] \cup {pb[2]} :
             pb \in {pb \in PilesIn(dims, k - 1) \X BricksIn(dims) :
                        \A o \in pb[1] : ~OverlapInSpace(o, pb[2])}}

\* the piles of the input
Piles == UNION {PilesIn(dims, MaxBricks) : dims \in Boxes} \ {{}}

\* Puzzle::parse of a text of one brick or more, then Puzzle::new
Day22Init ==
    /\ bricks \in Piles
    /\ given22 = bricks
    /\ sorted_bricks = <<>>
    /\ idx22 = 0
    /\ fallen_bricks = 0
    /\ returned22 = <<>>
    /\ falls = 0
    /\ pc22 = "ready"
    /\ settled = {}
    /\ ChainingInit
    /\ Beside22Idle

\* fall up to its loop: sorted_bricks = take(&mut self.bricks) in order
FallBegin ==
    /\ pc22 = "ready"
    /\ falls < MaxFalls
    /\ sorted_bricks' = into_iter(bricks)
    /\ bricks' = {}
    /\ fallen_bricks' = 0
    /\ idx22' = 1
    /\ falls' = falls + 1
    /\ pc22' = "for"
    /\ UNCHANGED <<returned22, given22, settled, chaining, beside22>>

\* one iteration of for i in 0..sorted_bricks.len(); idx22 is i + 1
FallStep ==
    /\ pc22 = "for"
    /\ idx22 <= Len(sorted_bricks)
    /\ LET z == highest_z(sorted_bricks, idx22) + 1
       IN  /\ sorted_bricks' =
                 [sorted_bricks EXCEPT
                     ![idx22] = move_down_to_z(sorted_bricks[idx22], z)]
           /\ fallen_bricks' =
                 IF z_diff(sorted_bricks[idx22], z) > 0
                 THEN fallen_bricks + 1
                 ELSE fallen_bricks
    /\ idx22' = idx22 + 1
    /\ UNCHANGED <<bricks, returned22, falls, pc22, given22, settled,
                   chaining, beside22>>

\* self.bricks.extend(sorted_bricks); fallen_bricks
FallEnd ==
    /\ pc22 = "for"
    /\ idx22 > Len(sorted_bricks)
    /\ bricks' = bricks \cup {sorted_bricks[i] : i \in 1..Len(sorted_bricks)}
    /\ returned22' = <<fallen_bricks>>
    /\ settled' = IF falls = 1 THEN bricks' ELSE settled
    /\ pc22' = "ready"
    /\ UNCHANGED <<sorted_bricks, idx22, fallen_bricks, falls, given22,
                   chaining, beside22>>

Day22Next ==
    \/ FallBegin
    \/ FallStep
    \/ FallEnd

Day22Spec == Day22Init /\ [][Day22Next]_vars

\* C19: for non-overlapping straight bricks with z >= 1, after fall every
\* brick has z_min = 1 or rests on a brick that overlaps it in x and y (one
\* whose z_max is its z_min - 1), no two bricks overlap in space, and a
\* second fall at once returns 0 and leaves the set of bricks as it was.
C19_FallSettles ==
    (pc22 = "ready" /\ falls >= 1) =>
        /\ \A b \in bricks :
              \/ z_min(b) = 1
              \/ \E o \in bricks \ {b} :
                    OverlapXY(o, b) /\ z_max(o) = z_min(b) - 1
        /\ \A a, b \in bricks : a # b => ~OverlapInSpace(a, b)
        /\ falls >= 2 => (returned22 = <<0>> /\ bricks = settled)

\* the ends of every brick of the input are in order on every axis
InputInOrder ==
    \A b \in given22 : \A axis \in 1..3 : b.start[axis] <= b.end[axis]

\* fall settles the piles whose bricks have their ends in order, and loses
\* no brick
FallSettlesOrdered ==
    InputInOrder =>
        /\ C19_FallSettles
        /\ pc22 = "ready" => Cardinality(bricks) = Cardinality(given22)

(***************************************************************************)
(* day22: disintegratable_bricks and chain_fall.                           *)
(***************************************************************************)
\* Puzzle::just_above
just_above(bs, brick) ==
    {a \in bs : z_min(a) = z_max(brick) + 1 /\ intersects_xy(a, brick)}

\* Puzzle::just_below
just_below(bs, brick) ==
    {a \in bs : z_max(a) = z_min(brick) - 1 /\ intersects_xy(a, brick)}

\* can_remove_brick asking of the bricks above only that something is below
can_remove_brick_if_held(bs, brick) ==
    \A b \in just_above(bs, brick) : Cardinality(just_below(bs, b)) >= 1

\* Puzzle::can_remove_brick
can_remove_brick(bs, brick) ==
    \A b \in just_above(bs, brick) : Cardinality(just_below(bs, b)) > 1

\* Puzzle::disintegratable_bricks
disintegratable_bricks(bs) == {b \in bs : can_remove_brick(bs, b)}

RECURSIVE fall_loop(_, _, _)
\* the loop of fall from place i on: the bricks as it leaves them and
\* fallen_bricks
fall_loop(sorted, i, fallen) ==
    IF i > Len(sorted) THEN <<sorted, fallen>>
    ELSE LET z == highest_z(sorted, i) + 1
         IN  fall_loop([sorted EXCEPT ![i] = move_down_to_z(sorted[i], z)],
                       i + 1,
                       IF z_diff(sorted[i], z) > 0 THEN fallen + 1 ELSE fallen)

\* Puzzle::fall as one call: what it returns
fall(bs) == fall_loop(into_iter(bs), 1, 0)[2]

\* part_one's p.disintegratable_bricks(), on the pile fall left
Disintegratable ==
    /\ pc22 = "ready"
    /\ falls = 1
    /\ removable' = disintegratable_bricks(bricks)
    /\ todo22' = into_iter(bricks)
    /\ count22' = 0
    /\ chain' = <<>>
    /\ pc22' = "chain"
    /\ UNCHANGED <<bricks, sorted_bricks, idx22, fallen_bricks, returned22,
                   falls, given22, settled, beside22>>

\* one iteration of for cur_brick in &self.bricks of chain_fall, or its end
ChainFall ==
    /\ pc22 = "chain"
    /\ IF todo22 # <<>>
       THEN LET cur_brick == Head(todo22)
                fell == fall(bricks \ {cur_brick})
            IN  /\ count22' = count22 + fell
                /\ chain' = Append(chain, <<cur_brick, fell>>)
                /\ todo22' = Tail(todo22)
                /\ UNCHANGED pc22
       ELSE /\ pc22' = "counted"
            /\ UNCHANGED <<todo22, count22, chain>>
    /\ UNCHANGED <<bricks, sorted_bricks, idx22, fallen_bricks, returned22,
                   falls, given22, settled, removable, beside22>>

ChainNext ==
    \/ FallBegin
    \/ FallStep
    \/ FallEnd
    \/ Disintegratable
    \/ ChainFall

ChainSpec == Day22Init /\ [][ChainNext]_vars

\* the bricks whose removal made no brick fall in chain_fall
Harmless == {chain[i][1] : i \in {j \in 1..Len(chain) : chain[j][2] = 0}}

\* C25: on the pile fall has settled, can_remove_brick(b) holds exactly of
\* the bricks b whose removal followed by fall() reports 0 fallen bricks:
\* the bricks part one counts are those that add 0 to chain_fall.
C25_RemovableIffNothingFalls ==
    (pc22 = "counted") =>
        /\ {chain[i][1] : i \in 1..Len(chain)} = bricks
        /\ removable = Harmless
        /\ Cardinality(removable) =
              Cardinality({i \in 1..Len(chain) : chain[i][2] = 0})

\* chain_fall is over on a pile with a brick that can go, though a brick
\* lies on it, and a brick that cannot
C25_Witness ==
    /\ pc22 = "counted"
    /\ \E b \in removable : just_above(bricks, b) # {}
    /\ \E b \in bricks : b \notin removable
    /\ count22 >= 1

(***************************************************************************)
(* day20: Puzzle::new, press_button and propagate.  A pulse is "Low" or    *)
(* "High"; a signal is a record of from, to and pulse.                     *)
(***************************************************************************)
\* a module of the input has at most MaxDests destinations
MaxDests == 2
\* the button is pressed at most MaxPresses times
MaxPresses == 2
\* a press is followed for at most MaxSignals signals
MaxSignals == 12

\* what day20 leaves alone
beside20 == <<day05, day14, day15, day22, day17, day16>>

Beside20Idle == Day05Idle /\ Day14Idle /\ Day15Idle /\ Day22Idle /\ Day17Idle /\ Day16Idle

Signal(from, to, pulse) == [from |-> from, to |-> to, pulse |-> pulse]

\* Module::FlipFlop { name, is_on }
FlipFlop(name, is_on) ==
    [kind |-> "FlipFlop", name |-> name, is_on |-> is_on, inputs |-> EmptyMap]

\* Module::Conjunction { name, inputs }
Conjunction(name, remembered) ==
    [kind |-> "Conjunction", name |-> name, is_on |-> FALSE,
     inputs |-> remembered]

\* Module::Broadcast, whose name() is "broadcaster"
Broadcast ==
    [kind |-> "Broadcast", name |-> "broadcaster", is_on |-> FALSE,
     inputs |-> EmptyMap]

\* the places of the pairs of module_pairs whose module has this name
PairsOf(module_pairs, name) ==
    {k \in 1..Len(module_pairs) : module_pairs[k][1].name = name}

\* forward_edges of Puzzle::new: for each source the destinations of its
\* pairs, in the order of module_pairs
new_forward_edges(module_pairs) ==
    [src \in {module_pairs[k][1].name : k \in 1..Len(module_pairs)} |->
        Concat([j \in 1..Cardinality(PairsOf(module_pairs, src)) |->
                   module_pairs[Kth(PairsOf(module_pairs, src), j)][2]])]

\* the keys of reverse_edges[name] of Puzzle::new: the sources that have
\* name among their destinations
new_reverse_edges(module_pairs, name) ==
    {module_pairs[k][1].name :
        k \in {j \in 1..Len(module_pairs) :
                  \E i \in 1..Len(module_pairs[j][2]) :
                      module_pairs[j][2][i] = name}}

\* modules of Puzzle::new: the last module inserted under each name, the
\* inputs of a Conjunction set to Pulse::Low for each of its sources
new_modules(module_pairs) ==
    [name \in {module_pairs[k][1].name : k \in 1..Len(module_pairs)} |->
        LET module == module_pairs[Max(PairsOf(module_pairs, name))][1]
        IN  IF module.kind = "Conjunction"
            THEN Conjunction(name,
                     [src \in new_reverse_edges(module_pairs, name) |-> "Low"])
            ELSE module]

\* the pulse a FlipFlop sends whatever it has become
flip_flop_pulse_always_high(is_on) == "High"

\* Some(if *is_on { Pulse::High } else { Pulse::Low })
flip_flop_pulse(is_on) == IF is_on THEN "High" ELSE "Low"

\* the module signal.to after propagate
propagate_module(module, signal) ==
    IF module.kind = "FlipFlop"
    THEN IF signal.pulse = "Low"
         THEN [module EXCEPT !.is_on = ~module.is_on]
         ELSE module
    ELSE IF module.kind = "Conjunction"
    THEN IF signal.from \in DOMAIN module.inputs
         THEN [module EXCEPT !.inputs[signal.from] = signal.pulse]
         ELSE module
    ELSE module

\* new_pulse of propagate, of the module as propagate has left it: <<>> for
\* None, <<pulse>> for Some(pulse)
new_pulse(module, signal) ==
    IF module.kind = "FlipFlop"
    THEN IF signal.pulse = "Low"
         THEN <<flip_flop_pulse(module.is_on)>>
         ELSE <<>>
    ELSE IF module.kind = "Conjunction"
    THEN IF \A src \in DOMAIN module.inputs : module.inputs[src] = "High"
         THEN <<"Low">>
         ELSE <<"High">>
    ELSE <<signal.pulse>>

\* new_signals of propagate
new_signals(edges, signal, pulse) ==
    [i \in 1..Len(edges[signal.to]) |->
        Signal(signal.to, edges[signal.to][i], pulse)]

\* the modules a and b of the input, and a destination that is no module
Named == {"a", "b"}

Sinks == {"out"}

\* the lists of destinations of a module of the input
DestLists == UNION {[1..n -> Named \cup Sinks] : n \in 1..MaxDests}

\* the inputs: broadcaster -> a, b and the modules a and b, each % or &
ModulePairs ==
    {<< <<Broadcast, <<"a", "b">> >>, <<ma, da>>, <<mb, db>> >> :
        <<ma, da, mb, db>> \in
            {FlipFlop("a", FALSE), Conjunction("a", EmptyMap)} \X DestLists
            \X {FlipFlop("b", FALSE), Conjunction("b", EmptyMap)} \X DestLists}

\* Puzzle::parse and SignalCounter::new
Day20Init ==
    /\ \E module_pairs \in ModulePairs :
          /\ modules20 = new_modules(module_pairs)
          /\ forward_edges = new_forward_edges(module_pairs)
    /\ queue20 = <<>>
    /\ low_pulses = 0
    /\ high_pulses = 0
    /\ button_press_count = 0
    /\ pc20 = "ready"
    /\ enqueued = <<>>
    /\ processed = <<>>
    /\ Beside20Idle

\* press_button up to its loop
PressButton ==
    /\ pc20 = "ready"
    /\ button_press_count < MaxPresses
    /\ queue20' = <<Signal("button", "broadcaster", "Low")>>
    /\ button_press_count' = button_press_count + 1
    /\ enqueued' = queue20'
    /\ processed' = <<>>
    /\ pc20' = "pressed"
    /\ UNCHANGED <<modules20, forward_edges, low_pulses, high_pulses,
                   beside20>>

\* one iteration of while let Some(signal) = queue.pop_front():
\* counter.incr(signal) and self.propagate(signal, &mut queue); or the end
\* of the loop
Propagate ==
    /\ pc20 = "pressed"
    /\ queue20 # <<>> => Len(processed) < MaxSignals
    /\ IF queue20 = <<>>
       THEN /\ pc20' = "ready"
            /\ UNCHANGED <<modules20, queue20, low_pulses, high_pulses,
                           enqueued, processed>>
       ELSE LET signal == Head(queue20) IN
            /\ low_pulses' =
                  IF signal.pulse = "Low" THEN low_pulses + 1 ELSE low_pulses
            /\ high_pulses' =
                  IF signal.pulse = "High" THEN high_pulses + 1 ELSE high_pulses
            /\ processed' = Append(processed, signal)
            /\ IF signal.to \notin DOMAIN modules20
               THEN \* a sink: return
                    /\ queue20' = Tail(queue20)
                    /\ UNCHANGED <<modules20, enqueued>>
               ELSE LET module == propagate_module(modules20[signal.to], signal)
                        pulse == new_pulse(module, signal)
                        sent == IF pulse = <<>> THEN <<>>
                                ELSE new_signals(forward_edges, signal, pulse[1])
                    IN  /\ modules20' = [modules20 EXCEPT ![signal.to] = module]
                        /\ queue20' = Tail(queue20) \o sent
                        /\ enqueued' = enqueued \o sent
            /\ UNCHANGED pc20
    /\ UNCHANGED <<forward_edges, button_press_count, beside20>>

Day20Next ==
    \/ PressButton
    \/ Propagate

Day20Spec == Day20Init /\ [][Day20Next]_vars

\* the loop of press_button takes a signal for a FlipFlop off the queue
FlipFlopTakes ==
    /\ pc20 = "pressed"
    /\ queue20 # <<>>
    /\ Head(queue20).to \in DOMAIN modules20
    /\ modules20[Head(queue20).to].kind = "FlipFlop"

\* C26: propagate on a flip-flop: a High pulse leaves its is_on and every
\* other module as they were and enqueues nothing; a Low pulse toggles
\* is_on, leaves the other modules as they were and enqueues, for each
\* destination in the order of its declaration, High if the flip-flop is
\* now on and Low if it is now off; and within a press the signals are
\* taken off the queue in the order they were put on it.
C26_FlipFlopPropagates ==
    /\ [](pc20 = "pressed" => processed \o queue20 = enqueued)
    /\ [][(FlipFlopTakes /\ processed' # processed) =>
             LET signal == Head(queue20)
                 name == Head(queue20).to
             IN  IF signal.pulse = "High"
                 THEN /\ modules20' = modules20
                      /\ queue20' = Tail(queue20)
                 ELSE /\ modules20'[name].is_on = ~modules20[name].is_on
                      /\ \A other \in DOMAIN modules20 \ {name} :
                            modules20'[other] = modules20[other]
                      /\ queue20' =
                            Tail(queue20) \o
                            [i \in 1..Len(forward_edges[name]) |->
                                Signal(name, forward_edges[name][i],
                                       IF modules20'[name].is_on
                                       THEN "High" ELSE "Low")]]_vars

\* in this press a flip-flop with two destinations was switched off by a
\* Low pulse and its Low signals were put on the queue, and the signal
\* taken last was a High pulse for a flip-flop
C26_Witness ==
    /\ pc20 = "pressed"
    /\ processed # <<>>
    /\ processed[Len(processed)].pulse = "High"
    /\ processed[Len(processed)].to \in DOMAIN modules20
    /\ modules20[processed[Len(processed)].to].kind = "FlipFlop"
    /\ \E i \in 1..Len(processed) :
          /\ processed[i].pulse = "Low"
          /\ processed[i].to \in DOMAIN modules20
          /\ modules20[processed[i].to].kind = "FlipFlop"
          /\ Len(forward_edges[processed[i].to]) = 2
          /\ forward_edges[processed[i].to][1]
                # forward_edges[processed[i].to][2]
          /\ \E j \in 1..Len(enqueued) :
                /\ enqueued[j].from = processed[i].to
                /\ enqueued[j].pulse = "Low"

(***************************************************************************)
(* day16: the beams of Puzzle::energize.                                   *)
(***************************************************************************)

\* the most rows, columns and tiles of a grid
MaxRows16 == 2

MaxCols16 == 2

MaxTiles16 == 4

beside16 == <<day05, day14, day15, day22, day17, day20>>

Beside16Idle == Day05Idle /\ Day14Idle /\ Day15Idle /\ Day22Idle /\ Day17Idle /\ Day20Idle

\* the bytes Head::step tells apart; every other byte is passed like "."
Tiles16 == {".", "\\", "/", "-", "|"}

\* struct Head
HeadAt(pos, heading) == [pos |-> pos, heading |-> heading]

\* Puzzle::validate_index: the position as usizes, or none (the empty
\* sequence) when try_into fails or the position is beyond the grid
validate_index(row, col) ==
    IF row >= 0 /\ col >= 0 /\ row < num_rows16 /\ col < num_cols16
    THEN <<(<<row, col>>)>>
    ELSE <<>>

\* Index<(Row, Col)>: r * num_cols + c, counted from 1 as sequences are
tile_index(rc) == rc[1] * num_cols16 + rc[2] + 1

\* Vec::contains
vec_contains(vec, elem) == \E i \in 1..Len(vec) : vec[i] = elem

\* the closure of retain without the test of the mask
retained_in_grid(head, mask) ==
    validate_index(head.pos[1], head.pos[2]) # <<>>

\* what the closure of retain returns for one head, given the mask so far
retained(head, mask) ==
    LET valid_pos == validate_index(head.pos[1], head.pos[2])
    IN  /\ valid_pos # <<>>
        /\ ~vec_contains(mask[tile_index(valid_pos[1])], head.heading)

\* heads.retain(..): the heads kept, the mask with their headings pushed,
\* and the heads removed, visiting the heads in order
RECURSIVE retain(_, _)
retain(hs, mask) ==
    IF hs = <<>>
    THEN [heads |-> <<>>, directions |-> mask, dropped |-> <<>>]
    ELSE LET head == Head(hs)
         IN  IF retained(head, mask)
             THEN LET i == tile_index(<<head.pos[1], head.pos[2]>>)
                      rest == retain(Tail(hs),
                                     [mask EXCEPT ![i] = Append(@, head.heading)])
                  IN  [rest EXCEPT !.heads = <<head>> \o @]
             ELSE LET rest == retain(Tail(hs), mask)
                  IN  [rest EXCEPT !.dropped = <<head>> \o @]

\* the heading Head::step gives the head itself
new_heading(tile, heading) ==
    CASE tile = "\\" /\ heading = "Up" -> "Left"
      [] tile = "\\" /\ heading = "Down" -> "Right"
      [] tile = "\\" /\ heading = "Left" -> "Up"
      [] tile = "\\" /\ heading = "Right" -> "Down"
      [] tile = "/" /\ heading = "Up" -> "Right"
      [] tile = "/" /\ heading = "Down" -> "Left"
      [] tile = "/" /\ heading = "Left" -> "Down"
      [] tile = "/" /\ heading = "Right" -> "Up"
      [] tile = "-" /\ heading \in {"Up", "Down"} -> "Left"
      [] tile = "|" /\ heading \in {"Left", "Right"} -> "Up"
      [] OTHER -> heading

\* the head Head::step splits off, if any
new_head(tile, head) ==
    CASE tile = "-" /\ head.heading \in {"Up", "Down"} ->
            <<HeadAt(<<head.pos[1], head.pos[2] + 1>>, "Right")>>
      [] tile = "|" /\ head.heading \in {"Left", "Right"} ->
            <<HeadAt(<<head.pos[1] + 1, head.pos[2]>>, "Down")>>
      [] OTHER -> <<>>

\* the move at the end of Head::step
moved(pos, heading) ==
    CASE heading = "Up" -> <<pos[1] - 1, pos[2]>>
      [] heading = "Down" -> <<pos[1] + 1, pos[2]>>
      [] heading = "Left" -> <<pos[1], pos[2] - 1>>
      [] heading = "Right" -> <<pos[1], pos[2] + 1>>

\* Head::step: the head after the call and the head returned, if any
step(head) ==
    LET valid_pos == validate_index(head.pos[1], head.pos[2])
    IN  IF valid_pos = <<>>
        THEN [self |-> head, new_head |-> <<>>]
        ELSE LET tile == tiles16[tile_index(valid_pos[1])]
                 heading == new_heading(tile, head.heading)
             IN  [self |-> HeadAt(moved(head.pos, heading), heading),
                  new_head |-> new_head(tile, head)]

\* heads.iter_mut().filter_map(|head| head.step(self)).collect()
RECURSIVE new_heads(_)
new_heads(hs) ==
    IF hs = <<>> THEN <<>>
    ELSE step(Head(hs)).new_head \o new_heads(Tail(hs))

\* the grids of at most MaxRows16 rows, MaxCols16 columns and MaxTiles16
\* tiles, as their lines
Grids16 ==
    {<<>>} \cup
    UNION {[1..rc[1] -> [1..rc[2] -> Tiles16]] :
              rc \in {p \in (1..MaxRows16) \X (1..MaxCols16) :
                         p[1] * p[2] <= MaxTiles16}}

\* Puzzle::from_str, tiles: the bytes of the lines without the newlines
RECURSIVE tiles_of(_)
tiles_of(lines) ==
    IF lines = <<>> THEN <<>> ELSE Head(lines) \o tiles_of(Tail(lines))

\* the start heads: every tile with every heading, which includes those of
\* start_positions, and the head of part_one, which an empty grid drops
StartHeads(lines) ==
    {HeadAt(<<0, 0>>, "Right")} \cup
    {HeadAt(<<r, col>>, d) : r \in 0..(Len(lines) - 1),
                             col \in 0..(num_cols(lines) - 1),
                             d \in Directions}

Day16Init ==
    /\ \E lines \in Grids16 :
          /\ tiles16 = tiles_of(lines)
          /\ num_rows16 = Len(lines)
          /\ num_cols16 = num_cols(lines)
          /\ start16 \in StartHeads(lines)
          /\ directions = [i \in 1..Len(tiles_of(lines)) |-> <<>>]
    /\ heads = <<start16>>
    /\ pc16 = "loop"
    /\ dropped16 = <<>>
    /\ Beside16Idle

\* one pass of the while loop up to the end of the retain
Retain ==
    /\ pc16 = "loop"
    /\ heads # <<>>
    /\ LET kept == retain(heads, directions)
       IN  /\ heads' = kept.heads
           /\ directions' = kept.directions
           /\ dropped16' = dropped16 \o kept.dropped
    /\ pc16' = "step"
    /\ UNCHANGED <<tiles16, num_rows16, num_cols16, start16, beside16>>

\* the rest of the pass: every head steps, the heads split off are appended
StepHeads ==
    /\ pc16 = "step"
    /\ heads' = [i \in 1..Len(heads) |-> step(heads[i]).self] \o new_heads(heads)
    /\ pc16' = "loop"
    /\ UNCHANGED <<tiles16, num_rows16, num_cols16, start16, directions,
                   dropped16, beside16>>

\* the while loop ends and energize returns the mask
ReturnMask ==
    /\ pc16 = "loop"
    /\ heads = <<>>
    /\ pc16' = "done"
    /\ UNCHANGED <<tiles16, num_rows16, num_cols16, start16, heads,
                   directions, dropped16, beside16>>

Day16Next == Retain \/ StepHeads \/ ReturnMask

Day16Spec == Day16Init /\ [][Day16Next]_vars

\* energize is one call that runs on: its next step is always taken
Day16FairSpec == Day16Spec /\ WF_vars(Day16Next)

\* the head is on a tile whose list already holds its heading
Recorded(head, mask) ==
    /\ validate_index(head.pos[1], head.pos[2]) # <<>>
    /\ vec_contains(mask[tile_index(head.pos)], head.heading)

\* C27: energize terminates for every grid and every start head, also when
\* the beams loop: no list of the mask ever holds a heading twice, and a
\* retain removes just the heads that are off the grid or on a tile
\* already recorded with their heading, each other head being kept and its
\* heading recorded.
C27_EnergizeTerminates ==
    /\ <>(pc16 = "done")
    /\ [](\A i \in DOMAIN directions :
             \A j, k \in 1..Len(directions[i]) :
                directions[i][j] = directions[i][k] => j = k)
    /\ [][(pc16 = "loop" /\ pc16' = "step") =>
             /\ \A i \in 1..Len(heads) :
                   (validate_index(heads[i].pos[1], heads[i].pos[2]) = <<>>
                       \/ Recorded(heads[i], directions))
                   => /\ \A j \in 1..Len(heads') : heads'[j] # heads[i]
                      /\ \E j \in (Len(dropped16) + 1)..Len(dropped16') :
                            dropped16'[j] = heads[i]
             /\ \A j \in 1..Len(heads') :
                   /\ \E i \in 1..Len(heads) : heads[i] = heads'[j]
                   /\ ~Recorded(heads'[j], directions)
                   /\ Recorded(heads'[j], directions')
                   /\ \A k \in 1..Len(heads') : heads'[k] = heads'[j] => k = j
             /\ Len(heads') + Len(dropped16') = Len(heads) + Len(dropped16)]_vars

\* a grid of two rows of two mirrors or splitters, all energized, where a
\* beam came round to a tile it had passed with the same heading and
\* another left the grid
C27_Witness ==
    /\ pc16 = "done"
    /\ num_rows16 = 2
    /\ num_cols16 = 2
    /\ \A i \in 1..4 : tiles16[i] # "." /\ directions[i] # <<>>
    /\ \E i \in 1..Len(dropped16) :
          /\ validate_index(dropped16[i].pos[1], dropped16[i].pos[2]) # <<>>
          /\ dropped16[i].pos = start16.pos
    /\ \E i \in 1..Len(dropped16) :
          validate_index(dropped16[i].pos[1], dropped16[i].pos[2]) = <<>>

=============================================================================
